---- MODULE Spec2Model ----
(***************************************************************************)
(* Metrics engine of the translation-analysis pipeline: Embedder           *)
(* (src/src/metrics/embeddings.py) and VectorMetrics                       *)
(* (src/src/metrics/distance.py), followed under Spec and SpecRemote, and  *)
(* under SpecFaulty when the model or the API may fail; the construction   *)
(* of an Embedder, under SpecEmbedder; ResultsAnalyzer                     *)
(* (src/src/ui/comparison.py), under SpecAnalyzer; DataLoader              *)
(* (src/src/ui/data_loader.py), under SpecLoader and SpecSummary; and      *)
(* ExperimentRunner._translate_with_retry                                  *)
(* (src/src/ui/experiment_runner.py), under SpecRetry.                     *)
(*                                                                         *)
(* Numbers.  Floating-point values are modelled as fixed-point integers    *)
(* counted in units of 1/Scale, carried in a record with a NaN flag.       *)
(* Sums, differences and products are exact; a square root and a division  *)
(* round to the nearest unit, as a finite-precision result does.           *)
(* Texts are sequences of characters, vectors are sequences of fixed-point *)
(* components.                                                             *)
(***************************************************************************)
EXTENDS Integers, Sequences, FiniteSets, TLC

VARIABLES
    use_openai,       \* Embedder.use_openai: remote API (TRUE) or local model (FALSE)
    scipy_zero_norm,  \* what the installed scipy's cosine() yields for a zero-norm operand
    pc,               \* "idle": no call in progress; "done": the last call has finished
    call,             \* the last call: operation and arguments
    backend,          \* the embedding model's raw answer for each text it was shown in the call
    result,           \* outcome of the last call, with the encode and backend calls it made
    embedder,         \* the Embedder a constructor call is building or has built, and its last dimension query
    analysis,         \* the last ResultsAnalyzer call: operation, arguments and outcome
    faults,           \* whether the embedding model or API may fail a call it is shown
    loader,           \* a DataLoader: its cache, the files it reads, its last call
    retry             \* a call of ExperimentRunner._translate_with_retry in progress

vars == <<use_openai, scipy_zero_norm, pc, call, backend, result, embedder, analysis,
          faults, loader, retry>>

\* ---------------------------------------------------------------- bounds
Scale == 10        \* fixed-point units per 1.0
MaxComp == 2       \* raw embedding components range over -MaxComp..MaxComp
MaxBatch == 2      \* longest list handed to encode

\* ---------------------------------------------------------------- texts
Whitespace == {" "}

RECURSIVE SeqsUpTo(_, _)
SeqsUpTo(S, n) ==
    IF n = 0 THEN {<<>>}
    ELSE LET shorter == SeqsUpTo(S, n - 1)
         IN  shorter \cup {Append(s, x) : s \in {q \in shorter : Len(q) = n - 1}, x \in S}

\* the texts calls are made with: empty, blank, plain, and padded with whitespace
Texts == {<<>>, <<" ">>, <<"a">>, <<" ", "b", " ">>}
TextLists == SeqsUpTo(Texts, MaxBatch)

\* str.lstrip / str.rstrip / str.strip with the default (whitespace) argument
RECURSIVE LStrip(_)
LStrip(s) ==
    IF s = <<>> THEN <<>>
    ELSE IF Head(s) \in Whitespace THEN LStrip(Tail(s)) ELSE s

RECURSIVE RStrip(_)
RStrip(s) ==
    IF s = <<>> THEN <<>>
    ELSE IF s[Len(s)] \in Whitespace THEN RStrip(SubSeq(s, 1, Len(s) - 1)) ELSE s

Strip(s) == RStrip(LStrip(s))

\* ---------------------------------------------------------------- numbers
F(x) == [nan |-> FALSE, v |-> x]
NaN == [nan |-> TRUE, v |-> 0]
One == F(Scale)

\* float subtraction and addition: NaN is absorbing
FSub(a, b) == IF a.nan \/ b.nan THEN NaN ELSE F(a.v - b.v)
FAdd(a, b) == IF a.nan \/ b.nan THEN NaN ELSE F(a.v + b.v)
\* float ==: false as soon as one side is NaN
FEq(a, b) == ~a.nan /\ ~b.nan /\ a.v = b.v

Abs(x) == IF x < 0 THEN -x ELSE x

\* a / b rounded to the nearest integer, b > 0
RoundDiv(a, b) == (2 * a + b) \div (2 * b)

\* the largest r in lo..hi with r * r <= n (bisection)
RECURSIVE FloorSqrtIn(_, _, _)
FloorSqrtIn(n, lo, hi) ==
    IF lo >= hi THEN lo
    ELSE LET mid == (lo + hi + 1) \div 2
         IN  IF mid * mid <= n THEN FloorSqrtIn(n, mid, hi) ELSE FloorSqrtIn(n, lo, mid - 1)

\* sqrt(n) rounded to the nearest integer, n >= 0
RoundSqrt(n) ==
    LET r == FloorSqrtIn(n, 0, IF n < 46340 THEN n ELSE 46340)
    IN  IF n - r * r > r THEN r + 1 ELSE r

\* ---------------------------------------------------------------- vectors
RECURSIVE SumTo(_, _)
SumTo(f, n) == IF n = 0 THEN 0 ELSE f[n] + SumTo(f, n - 1)

Dot(u, v) == SumTo([i \in 1..Len(u) |-> u[i] * v[i]], Len(u))

\* the embedding space of the model: the plane, on an integer grid
Components == {c * Scale : c \in -MaxComp..MaxComp}
RawVectors == {<<x, y>> : x \in Components, y \in Components}

\* the length of v, in fixed-point units
Norm(v) == RoundSqrt(Dot(v, v))

\* sentence-transformers' normalize_embeddings=True: every component divided
\* by the vector's length; a zero vector has nothing to scale and stays zero
UnitNormalize(v) ==
    IF Dot(v, v) = 0 THEN v
    ELSE [i \in 1..Len(v) |-> RoundDiv(v[i] * Scale, Norm(v))]

\* ---------------------------------------------------------------- Embedder
StrInput(s) == [is_str |-> TRUE, s |-> s, l |-> <<>>]
ListInput(l) == [is_str |-> FALSE, s |-> <<>>, l |-> l]

NoError == [type |-> "none", msg |-> <<>>]
ValueError(msg) == [type |-> "ValueError", msg |-> msg]

\* a call of the model or of the API that fails: no vector comes back and the
\* library's exception leaves encode
Unavailable == <<>>
BackendError == [type |-> "BackendError", msg |-> <<>>]

\* Embedder._encode_sentence_transformer: one model.encode call for the whole
\* list, with the normalize flag handed to the model
EncodeSentenceTransformer(bk, texts, normalize) ==
    IF \E i \in 1..Len(texts) : bk[texts[i]] = Unavailable
    THEN [raised |-> TRUE, error |-> BackendError, embeddings |-> <<>>,
          calls |-> <<[api |-> "sentence_transformers", texts |-> texts,
                       normalize |-> normalize]>>]
    ELSE [raised |-> FALSE, error |-> NoError,
          embeddings |-> [i \in 1..Len(texts) |->
                             IF normalize THEN UnitNormalize(bk[texts[i]])
                             ELSE bk[texts[i]]],
          calls |-> <<[api |-> "sentence_transformers", texts |-> texts,
                       normalize |-> normalize]>>]

\* Embedder._encode_openai: one embeddings.create call per text; the method
\* has no normalize parameter
\* the requests made one text at a time, up to the last text or to the first
\* one the API fails on
OpenaiCalls(texts, last) ==
    [i \in 1..last |-> [api |-> "openai", texts |-> <<texts[i]>>, normalize |-> FALSE]]

EncodeOpenai(bk, texts) ==
    IF \E i \in 1..Len(texts) : bk[texts[i]] = Unavailable
    THEN [raised |-> TRUE, error |-> BackendError, embeddings |-> <<>>,
          calls |-> OpenaiCalls(texts,
                                CHOOSE i \in 1..Len(texts) :
                                    /\ bk[texts[i]] = Unavailable
                                    /\ \A j \in 1..(i - 1) : bk[texts[j]] # Unavailable)]
    ELSE [raised |-> FALSE, error |-> NoError,
          embeddings |-> [i \in 1..Len(texts) |-> bk[texts[i]]],
          calls |-> OpenaiCalls(texts, Len(texts))]

\* InputIsEmpty with the strip() calls forgotten: only "" counts as empty
InputIsEmptyNoStrip(input) ==
    IF input.is_str THEN input.s = <<>>
    ELSE input.l = <<>> \/ \E i \in 1..Len(input.l) : input.l[i] = <<>>

\* the input check at the head of Embedder.encode
InputIsEmpty(input) ==
    IF input.is_str THEN Strip(input.s) = <<>>
    ELSE input.l = <<>> \/ \E i \in 1..Len(input.l) : Strip(input.l[i]) = <<>>

EncodeEmptyMsg(input) ==
    IF input.is_str THEN <<"Input text cannot be empty">>
    ELSE <<"Input texts cannot be empty">>

\* the list encode works on, and what it hands back from the backend's answer
InputTexts(input) == IF input.is_str THEN <<input.s>> ELSE input.l
Encoded(out, single) ==
    [raised |-> out.raised, error |-> out.error, single |-> single,
     embeddings |-> out.embeddings, calls |-> out.calls]

\* Embedder.encode.  embeddings is always the list of rows; for a single
\* string the caller is handed row 1 (embeddings[0] in the source).
Encode(openai, bk, input, normalize) ==
    IF InputIsEmpty(input)
    THEN [raised |-> TRUE, error |-> ValueError(EncodeEmptyMsg(input)),
          single |-> input.is_str, embeddings |-> <<>>, calls |-> <<>>]
    ELSE Encoded(IF openai THEN EncodeOpenai(bk, InputTexts(input))
                 ELSE EncodeSentenceTransformer(bk, InputTexts(input), normalize),
                 input.is_str)

\* ---------------------------------------------------------------- VectorMetrics
Clip(x, lo, hi) == IF x.nan THEN x ELSE IF x.v < lo THEN F(lo) ELSE IF x.v > hi THEN F(hi) ELSE x

\* scipy.spatial.distance.cosine: 1 - u.v / sqrt(u.u * v.v), clipped to [0, 2].
\* With a zero-norm operand the quotient is 0/0: the releases that clip with
\* np.clip hand the NaN on, the releases that clamp with max(0, min(d, 2.0))
\* turn it into 0.
Cosine(u, v) ==
    LET uv == Dot(u, v)
        uu == Dot(u, u)
        vv == Dot(v, v)
        den == RoundSqrt(uu * vv)
    IN  IF den = 0
        THEN IF scipy_zero_norm = "nan" THEN NaN ELSE F(0)
        ELSE Clip(F(Scale - RoundDiv(uv * Scale, den)), 0, 2 * Scale)

Diff(u, v) == [i \in 1..Len(u) |-> u[i] - v[i]]

\* VectorMetrics.cosine_distance
CosineDistance(vec1, vec2) == Cosine(vec1, vec2)

\* cosine_similarity without the complement: the distance handed back as is
CosineSimilarityNoComplement(vec1, vec2) == Cosine(vec1, vec2)

\* VectorMetrics.cosine_similarity
CosineSimilarity(vec1, vec2) == FSub(One, Cosine(vec1, vec2))

\* VectorMetrics.euclidean_distance (scipy's euclidean: the norm of u - v)
EuclideanDistance(vec1, vec2) == F(Norm(Diff(vec1, vec2)))

\* manhattan_distance without np.abs: the differences summed with their signs
ManhattanDistanceSigned(vec1, vec2) ==
    F(SumTo([i \in 1..Len(vec1) |-> vec1[i] - vec2[i]], Len(vec1)))

\* VectorMetrics.manhattan_distance
ManhattanDistance(vec1, vec2) ==
    F(SumTo([i \in 1..Len(vec1) |-> Abs(vec1[i] - vec2[i])], Len(vec1)))

NoMetrics ==
    [cosine_distance |-> F(0), cosine_similarity |-> F(0),
     euclidean_distance |-> F(0), manhattan_distance |-> F(0)]

\* what a call hands back: a raised error or a value (a float, the four
\* metrics, or embeddings), with the calls of Embedder.encode it made and the
\* calls those made to the model or the API, in order
Raised(err, encodes, calls) ==
    [raised |-> TRUE, error |-> err, value |-> F(0), metrics |-> NoMetrics,
     embeddings |-> <<>>, encodes |-> encodes, calls |-> calls]
Returned(value, metrics, embeddings, encodes, calls) ==
    [raised |-> FALSE, error |-> NoError, value |-> value, metrics |-> metrics,
     embeddings |-> embeddings, encodes |-> encodes, calls |-> calls]
NoResult == Returned(F(0), NoMetrics, <<>>, <<>>, <<>>)

EncodeCall(text, normalize) == [text |-> text, normalize |-> normalize]

supported_metrics == <<"cosine", "euclidean", "manhattan">>

UnsupportedMetricMsg(metric) ==
    <<"Metric '", metric, "' not supported. Use one of: ">> \o supported_metrics

ZeroVector == <<0, 0>>

\* the two encode calls with a failed encode answered by a zero vector
PairWithPlaceholder(e1, e2, text1, text2, normalize) ==
    Returned(F(0), NoMetrics,
             <<IF e1.raised THEN ZeroVector ELSE e1.embeddings[1],
               IF e2.raised THEN ZeroVector ELSE e2.embeddings[1]>>,
             <<EncodeCall(text1, normalize), EncodeCall(text2, normalize)>>,
             e1.calls \o e2.calls)

\* what the two encode calls come to: text2 counts only once text1's
\* embedding is there; an error ends the sequence
Pair(e1, e2, text1, text2, normalize) ==
    IF e1.raised
    THEN Raised(e1.error, <<EncodeCall(text1, normalize)>>, e1.calls)
    ELSE IF e2.raised
    THEN Raised(e2.error,
                <<EncodeCall(text1, normalize), EncodeCall(text2, normalize)>>,
                e1.calls \o e2.calls)
    ELSE Returned(F(0), NoMetrics, <<e1.embeddings[1], e2.embeddings[1]>>,
                  <<EncodeCall(text1, normalize), EncodeCall(text2, normalize)>>,
                  e1.calls \o e2.calls)

EncodePairPlaceholder(bk, text1, text2, normalize) ==
    PairWithPlaceholder(Encode(use_openai, bk, StrInput(text1), normalize),
                        Encode(use_openai, bk, StrInput(text2), normalize),
                        text1, text2, normalize)

\* the two encode calls every VectorMetrics method starts with: text1 first,
\* text2 only once text1's embedding is there; an error ends the sequence
EncodePair(bk, text1, text2, normalize) ==
    Pair(Encode(use_openai, bk, StrInput(text1), normalize),
         Encode(use_openai, bk, StrInput(text2), normalize),
         text1, text2, normalize)

\* calculate_distance that embeds both texts before it looks at the metric name
CalculateDistanceEmbedFirst(bk, text1, text2, metric) ==
    LET e == EncodePair(bk, text1, text2, FALSE)
        emb1 == e.embeddings[1]
        emb2 == e.embeddings[2]
        distance == IF metric = "cosine" THEN CosineDistance(emb1, emb2)
                    ELSE IF metric = "euclidean" THEN EuclideanDistance(emb1, emb2)
                    ELSE ManhattanDistance(emb1, emb2)
    IN  IF e.raised THEN e
        ELSE IF \A i \in 1..Len(supported_metrics) : supported_metrics[i] # metric
        THEN Raised(ValueError(UnsupportedMetricMsg(metric)), e.encodes, e.calls)
        ELSE Returned(distance, NoMetrics, <<>>, e.encodes, e.calls)

\* VectorMetrics.calculate_distance
CalculateDistance(bk, text1, text2, metric) ==
    IF \A i \in 1..Len(supported_metrics) : supported_metrics[i] # metric
    THEN Raised(ValueError(UnsupportedMetricMsg(metric)), <<>>, <<>>)
    ELSE LET e == EncodePair(bk, text1, text2, FALSE)
             emb1 == e.embeddings[1]
             emb2 == e.embeddings[2]
             distance == IF metric = "cosine" THEN CosineDistance(emb1, emb2)
                         ELSE IF metric = "euclidean" THEN EuclideanDistance(emb1, emb2)
                         ELSE ManhattanDistance(emb1, emb2)
         IN  IF e.raised THEN e
             ELSE Returned(distance, NoMetrics, <<>>, e.encodes, e.calls)

\* VectorMetrics.calculate_similarity
CalculateSimilarity(bk, text1, text2, metric) ==
    IF metric = "cosine"
    THEN LET e == EncodePair(bk, text1, text2, TRUE)
         IN  IF e.raised THEN e
             ELSE Returned(CosineSimilarity(e.embeddings[1], e.embeddings[2]),
                           NoMetrics, <<>>, e.encodes, e.calls)
    ELSE IF metric = "euclidean"
    THEN LET d == CalculateDistance(bk, text1, text2, "euclidean")
         IN  IF d.raised THEN d
             ELSE Returned(F(RoundDiv(Scale * Scale, Scale + d.value.v)),
                           NoMetrics, <<>>, d.encodes, d.calls)
    ELSE Raised(ValueError(<<"Similarity metric '", metric, "' not supported">>),
                <<>>, <<>>)

\* calculate_all_metrics that embeds the pair again for each of the four metrics
CalculateAllMetricsPerMetric(bk, text1, text2) ==
    LET e == EncodePair(bk, text1, text2, FALSE)
        emb1 == e.embeddings[1]
        emb2 == e.embeddings[2]
    IN  IF e.raised THEN e
        ELSE Returned(F(0),
                      [cosine_distance |-> CosineDistance(emb1, emb2),
                       cosine_similarity |-> CosineSimilarity(emb1, emb2),
                       euclidean_distance |-> EuclideanDistance(emb1, emb2),
                       manhattan_distance |-> ManhattanDistance(emb1, emb2)],
                      <<>>, e.encodes \o e.encodes \o e.encodes \o e.encodes,
                      e.calls \o e.calls \o e.calls \o e.calls)

\* calculate_all_metrics that leaves normalize at encode's default (true)
CalculateAllMetricsNormalized(bk, text1, text2) ==
    LET e == EncodePair(bk, text1, text2, TRUE)
        emb1 == e.embeddings[1]
        emb2 == e.embeddings[2]
    IN  IF e.raised THEN e
        ELSE Returned(F(0),
                      [cosine_distance |-> CosineDistance(emb1, emb2),
                       cosine_similarity |-> CosineSimilarity(emb1, emb2),
                       euclidean_distance |-> EuclideanDistance(emb1, emb2),
                       manhattan_distance |-> ManhattanDistance(emb1, emb2)],
                      <<>>, e.encodes, e.calls)

\* VectorMetrics.calculate_all_metrics
CalculateAllMetrics(bk, text1, text2) ==
    LET e == EncodePair(bk, text1, text2, FALSE)
        emb1 == e.embeddings[1]
        emb2 == e.embeddings[2]
    IN  IF e.raised THEN e
        ELSE Returned(F(0),
                      [cosine_distance |-> CosineDistance(emb1, emb2),
                       cosine_similarity |-> CosineSimilarity(emb1, emb2),
                       euclidean_distance |-> EuclideanDistance(emb1, emb2),
                       manhattan_distance |-> ManhattanDistance(emb1, emb2)],
                      <<>>, e.encodes, e.calls)

\* ---------------------------------------------------------------- calls
MetricNames == {"cosine", "euclidean", "manhattan", "hamming", "Cosine"}

\* The embedding model is deterministic: one raw vector per text.  Answers(ts)
\* are the models that differ on the texts ts.  encode shows a model no blank
\* text, so the models are told apart by their answers on the others.
Answers(ts) ==
    LET shown == {t \in ts : Strip(t) # <<>>}
    IN  {[t \in ts |-> IF t \in shown THEN f[t] ELSE ZeroVector] : f \in [shown -> RawVectors]}

\* the texts the model or the API was shown during a call
\* the models that fail on at least one of the texts they are shown
FailingAnswers(ts) ==
    LET shown == {t \in ts : Strip(t) # <<>>}
    IN  {[t \in ts |-> IF t \in shown THEN f[t] ELSE ZeroVector] :
            f \in {g \in [shown -> RawVectors \cup {Unavailable}] :
                      \E t \in shown : g[t] = Unavailable}}

\* the models a call can meet
Backends(ts) == IF faults THEN Answers(ts) \cup FailingAnswers(ts) ELSE Answers(ts)

Asked(r) == UNION {{c.texts[i] : i \in 1..Len(c.texts)} : c \in {r.calls[j] : j \in 1..Len(r.calls)}}

Restrict(f, S) == [t \in S \cap DOMAIN f |-> f[t]]

NoAnswers == [t \in {} |-> ZeroVector]

Range(seq) == {seq[i] : i \in 1..Len(seq)}

NoCall ==
    [op |-> "none", text1 |-> <<>>, text2 |-> <<>>, metric |-> "",
     input |-> StrInput(<<>>), normalize |-> FALSE, vec1 |-> <<>>, vec2 |-> <<>>]

TextCall(op, text1, text2, metric) ==
    [NoCall EXCEPT !.op = op, !.text1 = text1, !.text2 = text2, !.metric = metric]

VectorCall(op, vec1, vec2) == [NoCall EXCEPT !.op = op, !.vec1 = vec1, !.vec2 = vec2]

\* ---------------------------------------------------------------- Embedder construction
\* a str argument that may be None
NoneStr == [is_none |-> TRUE, s |-> <<>>]
Str(s) == [is_none |-> FALSE, s |-> s]

\* Python truth value of an Optional[str]: None and "" are false
Truthy(x) == ~x.is_none /\ Len(x.s) > 0

\* Python's  sub in s  on strings
Contains(sub, s) ==
    \E i \in 1..(Len(s) - Len(sub) + 1) : SubSeq(s, i, i + Len(sub) - 1) = sub

small == <<"s", "m", "a", "l", "l">>
large == <<"l", "a", "r", "g", "e">>

\* the model names an Embedder is constructed with
ModelNames ==
    { <<"e", "3", "-">> \o small,            \* an OpenAI small model
      <<"e", "3", "-">> \o large,            \* an OpenAI large model
      <<"a", "d", "a">>,                     \* neither word
      small \o <<"-">> \o large,             \* both words
      <<"L", "a", "r", "g", "e">>,           \* capitalised
      <<"m", "i", "n", "i">> }               \* a sentence-transformers model

\* the keys a caller passes: None, "", a blank and a key
ApiKeys == {NoneStr, Str(<<>>), Str(<<" ">>), Str(<<"s", "k">>)}

\* dimensions the loaded sentence-transformers models report
LocalDimensions == {384, 768}

MissingKeyMsg == <<"OpenAI API key required when use_openai=True">>
OpenaiMissingMsg == <<"OpenAI library not installed. Install with: pip install openai">>
SentenceTransformersMissingMsg ==
    <<"sentence-transformers library not installed. Install with: pip install sentence-transformers">>

ImportError(msg) == [type |-> "ImportError", msg |-> msg]

\* no Embedder: nothing constructed, nothing asked
NoEmbedder ==
    [state |-> "none", model_name |-> <<>>, use_openai |-> FALSE,
     openai_api_key |-> NoneStr, client |-> FALSE, model |-> 0,
     error |-> NoError, events |-> <<>>,
     dimension |-> 0, dimension_calls |-> <<>>, queries |-> 0, dimensions_seen |-> {}]

\* outcome of a constructor call; events lists, in order, what it touched outside the object
Constructed(model_name, use_openai_arg, openai_api_key, client, model, events) ==
    [NoEmbedder EXCEPT !.state = "ready", !.model_name = model_name,
                       !.use_openai = use_openai_arg,
                       !.openai_api_key = openai_api_key,
                       !.client = client, !.model = model, !.events = events]

ConstructionFailed(model_name, use_openai_arg, openai_api_key, client, err, events) ==
    [NoEmbedder EXCEPT !.state = "failed", !.model_name = model_name,
                       !.use_openai = use_openai_arg,
                       !.openai_api_key = openai_api_key,
                       !.client = client, !.error = err, !.events = events]

\* mutant of EmbedderInit: the key is looked at only after the client was made
EmbedderInitKeyCheckLast(model_name, use_openai_arg, openai_api_key, installed, dim) ==
    IF use_openai_arg
    THEN IF ~installed
         THEN ConstructionFailed(model_name, use_openai_arg, openai_api_key, FALSE,
                                 ImportError(OpenaiMissingMsg), <<"import openai">>)
         ELSE IF ~Truthy(openai_api_key)
              THEN ConstructionFailed(model_name, use_openai_arg, openai_api_key, TRUE,
                                      ValueError(MissingKeyMsg),
                                      <<"import openai", "OpenAI">>)
              ELSE Constructed(model_name, use_openai_arg, openai_api_key, TRUE, 0,
                               <<"import openai", "OpenAI">>)
    ELSE IF ~installed
         THEN ConstructionFailed(model_name, use_openai_arg, openai_api_key, FALSE,
                                 ImportError(SentenceTransformersMissingMsg),
                                 <<"import sentence_transformers">>)
         ELSE Constructed(model_name, use_openai_arg, openai_api_key, FALSE, dim,
                          <<"import sentence_transformers", "SentenceTransformer">>)

\* Embedder.__init__; installed: the backend's library can be imported;
\* dim: the dimension of the sentence-transformers model that gets loaded
EmbedderInit(model_name, use_openai_arg, openai_api_key, installed, dim) ==
    IF use_openai_arg
    THEN IF ~Truthy(openai_api_key)
         THEN ConstructionFailed(model_name, use_openai_arg, openai_api_key, FALSE,
                                 ValueError(MissingKeyMsg), <<>>)
         ELSE IF ~installed
              THEN ConstructionFailed(model_name, use_openai_arg, openai_api_key, FALSE,
                                      ImportError(OpenaiMissingMsg), <<"import openai">>)
              ELSE Constructed(model_name, use_openai_arg, openai_api_key, TRUE, 0,
                               <<"import openai", "OpenAI">>)
    ELSE IF ~installed
         THEN ConstructionFailed(model_name, use_openai_arg, openai_api_key, FALSE,
                                 ImportError(SentenceTransformersMissingMsg),
                                 <<"import sentence_transformers">>)
         ELSE Constructed(model_name, use_openai_arg, openai_api_key, FALSE, dim,
                          <<"import sentence_transformers", "SentenceTransformer">>)

\* mutant of GetEmbeddingDimension: 'large' is looked for before 'small'
GetEmbeddingDimensionLargeFirst(e) ==
    IF e.use_openai
    THEN [dimension |-> IF Contains(large, e.model_name) THEN 3072
                        ELSE IF Contains(small, e.model_name) THEN 1536
                        ELSE 1536,
          calls |-> <<>>]
    ELSE [dimension |-> e.model,
          calls |-> <<"model.get_sentence_embedding_dimension">>]

\* Embedder.get_embedding_dimension on the instance e: the value and the calls it made
GetEmbeddingDimension(e) ==
    IF e.use_openai
    THEN [dimension |-> IF Contains(small, e.model_name) THEN 1536
                        ELSE IF Contains(large, e.model_name) THEN 3072
                        ELSE 1536,
          calls |-> <<>>]
    ELSE [dimension |-> e.model,
          calls |-> <<"model.get_sentence_embedding_dimension">>]

\* ---------------------------------------------------------------- ResultsAnalyzer: texts
MaxTextLen == 3    \* longest text handed to calculate_text_changes

\* lower case, upper case and the separator
AnalyzerChars == {" ", "a", "A"}
AnalyzerTexts == SeqsUpTo(AnalyzerChars, MaxTextLen)

\* str.split(): the maximal runs of non-whitespace characters, in order
RECURSIVE SplitAcc(_, _, _)
SplitAcc(s, cur, acc) ==
    IF s = <<>>
    THEN IF cur = <<>> THEN acc ELSE Append(acc, cur)
    ELSE IF Head(s) \in Whitespace
         THEN SplitAcc(Tail(s), <<>>, IF cur = <<>> THEN acc ELSE Append(acc, cur))
         ELSE SplitAcc(Tail(s), Append(cur, Head(s)), acc)

Split(s) == SplitAcc(s, <<>>, <<>>)

\* a quotient of two integers, kept exact
Ratio(num, den) == [num |-> num, den |-> den]
RatioEq(a, b) == a.num * b.den = b.num * a.den

ZeroDivisionError == [type |-> "ZeroDivisionError", msg |-> <<"division by zero">>]

NoChanges ==
    [original_word_count |-> 0, final_word_count |-> 0, common_words |-> 0,
     added_words |-> 0, removed_words |-> 0, word_retention_rate |-> Ratio(0, 1)]

TextChanges(changes) == [raised |-> FALSE, error |-> NoError, changes |-> changes]
TextChangesRaised(err) == [raised |-> TRUE, error |-> err, changes |-> NoChanges]

\* mutant of CalculateTextChanges: the rate is divided out whatever the word count
CalculateTextChangesUnguarded(original, final) ==
    LET original_words == Split(original)
        final_words == Split(final)
        original_set == Range(original_words)
        final_set == Range(final_words)
        common_words == original_set \cap final_set
        added_words == final_set \ original_set
        removed_words == original_set \ final_set
    IN  IF Len(original_words) = 0
        THEN TextChangesRaised(ZeroDivisionError)
        ELSE TextChanges(
                 [original_word_count |-> Len(original_words),
                  final_word_count |-> Len(final_words),
                  common_words |-> Cardinality(common_words),
                  added_words |-> Cardinality(added_words),
                  removed_words |-> Cardinality(removed_words),
                  word_retention_rate |->
                      Ratio(Cardinality(common_words), Len(original_words))])

\* mutant of CalculateTextChanges: the common words are counted with their repetitions
CalculateTextChangesCountingRepeats(original, final) ==
    LET original_words == Split(original)
        final_words == Split(final)
        original_set == Range(original_words)
        final_set == Range(final_words)
        common_words == {i \in 1..Len(original_words) : original_words[i] \in final_set}
        added_words == final_set \ original_set
        removed_words == original_set \ final_set
    IN  TextChanges(
            [original_word_count |-> Len(original_words),
             final_word_count |-> Len(final_words),
             common_words |-> Cardinality(common_words),
             added_words |-> Cardinality(added_words),
             removed_words |-> Cardinality(removed_words),
             word_retention_rate |->
                 IF Len(original_words) > 0
                 THEN Ratio(Cardinality(common_words), Len(original_words))
                 ELSE Ratio(0, 1)])

\* mutant of CalculateTextChanges: the added words are counted with their repetitions
CalculateTextChangesAddedRepeats(original, final) ==
    LET original_words == Split(original)
        final_words == Split(final)
        original_set == Range(original_words)
        final_set == Range(final_words)
        common_words == original_set \cap final_set
        added_words == {i \in 1..Len(final_words) : final_words[i] \notin original_set}
        removed_words == original_set \ final_set
    IN  TextChanges(
            [original_word_count |-> Len(original_words),
             final_word_count |-> Len(final_words),
             common_words |-> Cardinality(common_words),
             added_words |-> Cardinality(added_words),
             removed_words |-> Cardinality(removed_words),
             word_retention_rate |->
                 IF Len(original_words) > 0
                 THEN Ratio(Cardinality(common_words), Len(original_words))
                 ELSE Ratio(0, 1)])

\* ResultsAnalyzer.calculate_text_changes
CalculateTextChanges(original, final) ==
    LET original_words == Split(original)
        final_words == Split(final)
        original_set == Range(original_words)
        final_set == Range(final_words)
        common_words == original_set \cap final_set
        added_words == final_set \ original_set
        removed_words == original_set \ final_set
    IN  TextChanges(
            [original_word_count |-> Len(original_words),
             final_word_count |-> Len(final_words),
             common_words |-> Cardinality(common_words),
             added_words |-> Cardinality(added_words),
             removed_words |-> Cardinality(removed_words),
             word_retention_rate |->
                 IF Len(original_words) > 0
                 THEN Ratio(Cardinality(common_words), Len(original_words))
                 ELSE Ratio(0, 1)])

\* ---------------------------------------------------------------- ResultsAnalyzer: tables
MaxRows == 3       \* most rows of a table

\* A float of a table is a finite quotient num/den (den > 0), an infinity or
\* NaN, pandas' missing value.  Sums, differences and quotients of the finite
\* ones are kept exact.
RECURSIVE GCD(_, _)
GCD(a, b) == IF b = 0 THEN a ELSE GCD(b, a % b)

\* the quotient num/den in lowest terms
Num(num, den) ==
    LET g == GCD(Abs(num), den)
    IN  [kind |-> "num", num |-> num \div g, den |-> den \div g]
Null == [kind |-> "nan", num |-> 0, den |-> 1]
PosInf == [kind |-> "inf", num |-> 1, den |-> 1]
NegInf == [kind |-> "inf", num |-> -1, den |-> 1]
\* Python's None where a number is expected
NoneValue == [kind |-> "none", num |-> 0, den |-> 1]

IsNum(a) == a.kind = "num"
FloatLess(a, b) == a.num * b.den < b.num * a.den

FloatMinus(a, b) ==
    IF IsNum(a) /\ IsNum(b)
    THEN Num(a.num * b.den - b.num * a.den, a.den * b.den)
    ELSE Null

\* numpy's true division: x/0 is an infinity, 0/0 is NaN, nothing is raised
FloatDivide(a, b) ==
    IF ~(IsNum(a) /\ IsNum(b)) THEN Null
    ELSE IF b.num = 0
         THEN IF a.num = 0 THEN Null ELSE IF a.num > 0 THEN PosInf ELSE NegInf
         ELSE IF b.num > 0 THEN Num(a.num * b.den, a.den * b.num)
              ELSE Num(-(a.num * b.den), -(a.den * b.num))

FloatTimes100(a) == IF IsNum(a) THEN Num(a.num * 100, a.den) ELSE a

\* An error rate is a fraction counted in hundredths.  A percentage is a
\* number n with the distance, in units of the last place, of the double
\* from n.
Pct(n, ulps) == [n |-> n, ulps |-> ulps]
PctLeq(a, b) == a.n < b.n \/ (a.n = b.n /\ a.ulps <= b.ulps)

\* the double product  f * 100  of the fraction f/100, for f in 0..100: off
\* the integer by one unit of the last place for eight fractions
Times100(f) ==
    Pct(f, IF f \in {7, 14, 28, 55, 56} THEN 1
           ELSE IF f \in {29, 57, 58} THEN -1
           ELSE 0)

\* error rates asked for: 0.0, 0.07, 0.1
ErrorRates == {0, 7, 10}
\* percentages found in tables: typed in (0, 7) and multiplied out (0.07 * 100)
ErrorRatePcts == {Pct(0, 0), Pct(7, 0), Times100(7)}
\* cosine distances found in tables: 0.0, 0.1, 0.25
MetricValues == {Num(0, 100), Num(10, 100), Num(25, 100)}

\* a DataFrame: its column names and its rows in index order; None is NoTable
Table(columns, rows) == [is_none |-> FALSE, columns |-> columns, rows |-> rows]
NoTable == [is_none |-> TRUE, columns |-> {}, rows |-> <<>>]

CellsOf(c) == IF c = "error_rate" THEN ErrorRatePcts ELSE MetricValues
RowsOver(columns) ==
    {r \in [columns -> ErrorRatePcts \cup MetricValues] :
        \A c \in columns : r[c] \in CellsOf(c)}

\* the tables calls are made with: comparison tables, and tables lacking a column
ColumnSets == {{"error_rate", "cosine_distance"}, {"error_rate"}, {"cosine_distance"}}
Tables ==
    UNION {{Table(columns, rows) : rows \in SeqsUpTo(RowsOver(columns), MaxRows)} :
              columns \in ColumnSets}

\* the metric names asked for; no table has a euclidean_distance column
MetricArgs == {"cosine_distance", "euclidean_distance"}

KeyError(key) == [type |-> "KeyError", msg |-> <<key>>]
MetricNotFoundMsg(metric) == <<"Metric '", metric, "' not found in data">>

TableReturned(table) == [raised |-> FALSE, error |-> NoError, table |-> table]
TableRaised(err) == [raised |-> TRUE, error |-> err, table |-> NoTable]

\* Series.diff() and Series.shift(1) at index i of the column
Column(df, c) == [i \in 1..Len(df.rows) |-> df.rows[i][c]]
ShiftOne(col, i) == IF i = 1 THEN Null ELSE col[i - 1]
DiffAt(col, i) == FloatMinus(col[i], ShiftOne(col, i))

\* mutant of CompareMetricsAcrossLevels: the first row's change is filled with 0
CompareMetricsAcrossLevelsFilled(df, metric) ==
    IF metric \notin df.columns THEN TableRaised(ValueError(MetricNotFoundMsg(metric)))
    ELSE IF "error_rate" \notin df.columns THEN TableRaised(KeyError("error_rate"))
    ELSE LET value == Column(df, metric)
             change == [i \in 1..Len(df.rows) |->
                           IF i = 1 THEN Num(0, 1) ELSE DiffAt(value, i)]
         IN  TableReturned(Table({"error_rate", metric, "change", "percent_change"},
                 [i \in 1..Len(df.rows) |->
                     [c \in {"error_rate", metric, "change", "percent_change"} |->
                         IF c = "error_rate" THEN df.rows[i]["error_rate"]
                         ELSE IF c = metric THEN value[i]
                         ELSE IF c = "change" THEN change[i]
                         ELSE FloatTimes100(FloatDivide(change[i], ShiftOne(value, i)))]]))

\* mutant of CompareMetricsAcrossLevels: the column is selected without being looked for
CompareMetricsAcrossLevelsUnchecked(df, metric) ==
    IF "error_rate" \notin df.columns THEN TableRaised(KeyError("error_rate"))
    ELSE IF metric \notin df.columns THEN TableRaised(KeyError(metric))
    ELSE LET value == Column(df, metric)
             change == [i \in 1..Len(df.rows) |-> DiffAt(value, i)]
         IN  TableReturned(Table({"error_rate", metric, "change", "percent_change"},
                 [i \in 1..Len(df.rows) |->
                     [c \in {"error_rate", metric, "change", "percent_change"} |->
                         IF c = "error_rate" THEN df.rows[i]["error_rate"]
                         ELSE IF c = metric THEN value[i]
                         ELSE IF c = "change" THEN change[i]
                         ELSE FloatTimes100(FloatDivide(change[i], ShiftOne(value, i)))]]))

\* ResultsAnalyzer.compare_metrics_across_levels
CompareMetricsAcrossLevels(df, metric) ==
    IF metric \notin df.columns THEN TableRaised(ValueError(MetricNotFoundMsg(metric)))
    ELSE IF "error_rate" \notin df.columns THEN TableRaised(KeyError("error_rate"))
    ELSE LET value == Column(df, metric)
             change == [i \in 1..Len(df.rows) |-> DiffAt(value, i)]
         IN  TableReturned(Table({"error_rate", metric, "change", "percent_change"},
                 [i \in 1..Len(df.rows) |->
                     [c \in {"error_rate", metric, "change", "percent_change"} |->
                         IF c = "error_rate" THEN df.rows[i]["error_rate"]
                         ELSE IF c = metric THEN value[i]
                         ELSE IF c = "change" THEN change[i]
                         ELSE FloatTimes100(FloatDivide(change[i], ShiftOne(value, i)))]]))

InRange(row, min_pct, max_pct) ==
    PctLeq(min_pct, row["error_rate"]) /\ PctLeq(row["error_rate"], max_pct)

\* mutant of FilterByErrorRange: the upper end is left out
FilterByErrorRangeOpenEnd(df, min_error, max_error) ==
    IF "error_rate" \notin df.columns THEN TableRaised(KeyError("error_rate"))
    ELSE LET min_pct == Times100(min_error)
             max_pct == Times100(max_error)
         IN  TableReturned(Table(df.columns,
                 SelectSeq(df.rows, LAMBDA row :
                     InRange(row, min_pct, max_pct) /\ row["error_rate"] # max_pct)))

\* ResultsAnalyzer.filter_by_error_range
FilterByErrorRange(df, min_error, max_error) ==
    IF "error_rate" \notin df.columns THEN TableRaised(KeyError("error_rate"))
    ELSE LET min_pct == Times100(min_error)
             max_pct == Times100(max_error)
         IN  TableReturned(Table(df.columns,
                 SelectSeq(df.rows, LAMBDA row : InRange(row, min_pct, max_pct))))

\* ---------------------------------------------------------------- ResultsAnalyzer: summary
\* a results dictionary: its 'results' list, when it has one; of each entry
\* the error rate is followed
Results(result_list) == [has_results |-> TRUE, results |-> result_list]
NoResults == [has_results |-> FALSE, results |-> <<>>]
Entry(f) == [error_rate |-> f]
\* the dictionaries calls are made with: without a list, with an empty list,
\* with one rate, one rate twice, two rates out of order, a rate coming back
ResultsDicts ==
    {NoResults, Results(<<>>), Results(<<Entry(7)>>), Results(<<Entry(7), Entry(7)>>),
     Results(<<Entry(10), Entry(7)>>), Results(<<Entry(10), Entry(7), Entry(10)>>)}

\* sorted(S) of a set of integers
RECURSIVE Sorted(_)
Sorted(S) ==
    IF S = {} THEN <<>>
    ELSE LET least == CHOOSE x \in S : \A y \in S : x <= y
         IN  <<least>> \o Sorted(S \ {least})

FloatPlus(a, b) ==
    IF IsNum(a) /\ IsNum(b)
    THEN Num(a.num * b.den + b.num * a.den, a.den * b.den)
    ELSE Null

RECURSIVE ColumnSum(_, _)
ColumnSum(col, n) == IF n = 0 THEN Num(0, 1) ELSE FloatPlus(ColumnSum(col, n - 1), col[n])

ColumnMin(col) == CHOOSE x \in Range(col) : \A y \in Range(col) : ~FloatLess(y, x)
ColumnMax(col) == CHOOSE x \in Range(col) : \A y \in Range(col) : ~FloatLess(x, y)
ColumnMean(col) == FloatDivide(ColumnSum(col, Len(col)), Num(Len(col), 1))

NoMetricsEntry ==
    [min_distance |-> NoneValue, max_distance |-> NoneValue,
     mean_distance |-> NoneValue, total_degradation |-> NoneValue]

NoSummary ==
    [total_sentences |-> 0, error_rates |-> <<>>,
     has_metrics |-> FALSE, metrics |-> NoMetricsEntry]

\* mutant of GenerateSummaryReport: the rates are listed as they come
GenerateSummaryReportListed(results, metrics_df) ==
    LET result_list == IF results.has_results THEN results.results ELSE <<>>
        has_column == "cosine_distance" \in metrics_df.columns
        col == Column(metrics_df, "cosine_distance")
    IN  [total_sentences |-> Len(result_list),
         error_rates |-> [i \in 1..Len(result_list) |-> result_list[i].error_rate],
         has_metrics |-> ~metrics_df.is_none /\ Len(metrics_df.rows) > 0,
         metrics |->
             IF ~metrics_df.is_none /\ Len(metrics_df.rows) > 0
             THEN [min_distance |-> IF has_column THEN ColumnMin(col) ELSE NoneValue,
                   max_distance |-> IF has_column THEN ColumnMax(col) ELSE NoneValue,
                   mean_distance |-> IF has_column THEN ColumnMean(col) ELSE NoneValue,
                   total_degradation |->
                       IF has_column /\ Len(metrics_df.rows) > 1
                       THEN FloatMinus(col[Len(col)], col[1])
                       ELSE NoneValue]
             ELSE NoMetricsEntry]

\* mutant of GenerateSummaryReport: the degradation is taken of any table with a row
GenerateSummaryReportOneRow(results, metrics_df) ==
    LET result_list == IF results.has_results THEN results.results ELSE <<>>
        has_column == "cosine_distance" \in metrics_df.columns
        col == Column(metrics_df, "cosine_distance")
    IN  [total_sentences |-> Len(result_list),
         error_rates |-> Sorted({result_list[i].error_rate : i \in 1..Len(result_list)}),
         has_metrics |-> ~metrics_df.is_none /\ Len(metrics_df.rows) > 0,
         metrics |->
             IF ~metrics_df.is_none /\ Len(metrics_df.rows) > 0
             THEN [min_distance |-> IF has_column THEN ColumnMin(col) ELSE NoneValue,
                   max_distance |-> IF has_column THEN ColumnMax(col) ELSE NoneValue,
                   mean_distance |-> IF has_column THEN ColumnMean(col) ELSE NoneValue,
                   total_degradation |->
                       IF has_column /\ Len(metrics_df.rows) > 0
                       THEN FloatMinus(col[Len(col)], col[1])
                       ELSE NoneValue]
             ELSE NoMetricsEntry]

\* ResultsAnalyzer.generate_summary_report; the identifying entries copied
\* from the results dictionary (experiment_id, timestamp, mode, input_file,
\* description) are not followed
GenerateSummaryReport(results, metrics_df) ==
    LET result_list == IF results.has_results THEN results.results ELSE <<>>
        has_column == "cosine_distance" \in metrics_df.columns
        col == Column(metrics_df, "cosine_distance")
    IN  [total_sentences |-> Len(result_list),
         error_rates |-> Sorted({result_list[i].error_rate : i \in 1..Len(result_list)}),
         has_metrics |-> ~metrics_df.is_none /\ Len(metrics_df.rows) > 0,
         metrics |->
             IF ~metrics_df.is_none /\ Len(metrics_df.rows) > 0
             THEN [min_distance |-> IF has_column THEN ColumnMin(col) ELSE NoneValue,
                   max_distance |-> IF has_column THEN ColumnMax(col) ELSE NoneValue,
                   mean_distance |-> IF has_column THEN ColumnMean(col) ELSE NoneValue,
                   total_degradation |->
                       IF has_column /\ Len(metrics_df.rows) > 1
                       THEN FloatMinus(col[Len(col)], col[1])
                       ELSE NoneValue]
             ELSE NoMetricsEntry]

\* ---------------------------------------------------------------- ResultsAnalyzer: comparison table
MaxEntries == 2    \* most entries of a results list handed to create_comparison_dataframe

\* dict.get(key, default) and Series.get(key, default)
Get(d, key, default) == IF key \in DOMAIN d THEN d[key] ELSE default

Without(d, keys) == [k \in DOMAIN d \ keys |-> d[k]]

OptionalKeys == {"id", "misspelled", "french", "hebrew", "final", "word_count"}
ComparisonColumns == OptionalKeys \cup {"error_rate", "original"}

\* a result with every field; its word_count is not the number of its words
FullEntry(f) ==
    [k \in ComparisonColumns |->
        IF k = "id" THEN "s1"
        ELSE IF k = "error_rate" THEN f
        ELSE IF k = "original" THEN <<"a", " ", "A">>
        ELSE IF k = "misspelled" THEN <<"e", " ", "A">>
        ELSE IF k = "french" THEN "fr"
        ELSE IF k = "hebrew" THEN "he"
        ELSE IF k = "final" THEN "fin"
        ELSE 9]

\* the fields an entry comes without: none, one optional field, all optional
\* fields, and all but the error rate
MissingSets ==
    {{}} \cup {{k} : k \in OptionalKeys} \cup {OptionalKeys, OptionalKeys \cup {"original"}}

ComparisonEntries ==
    {Without(FullEntry(f), missing) : f \in {7, 10}, missing \in MissingSets}

ComparisonResults ==
    {NoResults} \cup {Results(l) : l \in SeqsUpTo(ComparisonEntries, MaxEntries)}

\* the row made of one entry
ComparisonRow(entry) ==
    [k \in ComparisonColumns |->
        IF k = "id" THEN Get(entry, "id", "N/A")
        ELSE IF k = "error_rate" THEN Times100(entry["error_rate"])
        ELSE IF k = "original" THEN entry["original"]
        ELSE IF k = "misspelled" THEN Get(entry, "misspelled", entry["original"])
        ELSE IF k = "french" THEN Get(entry, "french", "N/A")
        ELSE IF k = "hebrew" THEN Get(entry, "hebrew", "N/A")
        ELSE IF k = "final" THEN Get(entry, "final", "N/A")
        ELSE Get(entry, "word_count", Len(Split(entry["original"])))]

\* the first key of an entry whose lookup fails: error_rate is read before original
MissingKey(entry) == IF "error_rate" \notin DOMAIN entry THEN "error_rate" ELSE "original"
Incomplete(entry) == ~({"error_rate", "original"} \subseteq DOMAIN entry)

\* mutant of CreateComparisonDataframe: an entry lacking an optional field is left out
CreateComparisonDataframeSkipping(results) ==
    LET result_list == IF results.has_results THEN results.results ELSE <<>>
        failing == {i \in 1..Len(result_list) : Incomplete(result_list[i])}
        whole == SelectSeq(result_list, LAMBDA r : OptionalKeys \subseteq DOMAIN r)
    IN  IF failing # {}
        THEN TableRaised(KeyError(MissingKey(
                 result_list[CHOOSE i \in failing : \A j \in failing : i <= j])))
        ELSE TableReturned(Table(IF Len(whole) = 0 THEN {} ELSE ComparisonColumns,
                                 [i \in 1..Len(whole) |-> ComparisonRow(whole[i])]))

\* ResultsAnalyzer.create_comparison_dataframe; a DataFrame made of no rows
\* has no columns
CreateComparisonDataframe(results) ==
    LET result_list == IF results.has_results THEN results.results ELSE <<>>
        failing == {i \in 1..Len(result_list) : Incomplete(result_list[i])}
    IN  IF failing # {}
        THEN TableRaised(KeyError(MissingKey(
                 result_list[CHOOSE i \in failing : \A j \in failing : i <= j])))
        ELSE TableReturned(Table(IF Len(result_list) = 0 THEN {} ELSE ComparisonColumns,
                                 [i \in 1..Len(result_list) |->
                                     ComparisonRow(result_list[i])]))

metric_columns ==
    {"cosine_distance", "cosine_similarity", "euclidean_distance", "manhattan_distance"}

NoStats == [k \in {} |-> ""]
NoDataMsg == "No data for this error level"

StatsReturned(stats) == [raised |-> FALSE, error |-> NoError, stats |-> stats]
StatsRaised(err) == [raised |-> TRUE, error |-> err, stats |-> NoStats]

\* ResultsAnalyzer.get_error_level_statistics
GetErrorLevelStatistics(df, error_level) ==
    IF "error_rate" \notin df.columns THEN StatsRaised(KeyError("error_rate"))
    ELSE LET filtered == SelectSeq(df.rows,
                             LAMBDA r : r["error_rate"] = Times100(error_level))
         IN  IF Len(filtered) = 0
             THEN StatsReturned([k \in {"error"} |-> NoDataMsg])
             ELSE LET row == filtered[1]
                      base == {"error_rate", "original_text", "misspelled_text",
                               "final_text", "word_count"}
                  IN  StatsReturned(
                          [k \in base \cup (metric_columns \cap DOMAIN row) |->
                              IF k = "error_rate" THEN error_level
                              ELSE IF k = "original_text" THEN Get(row, "original", "N/A")
                              ELSE IF k = "misspelled_text" THEN Get(row, "misspelled", "N/A")
                              ELSE IF k = "final_text" THEN Get(row, "final", "N/A")
                              ELSE IF k = "word_count" THEN Get(row, "word_count", 0)
                              ELSE row[k]])

\* ---------------------------------------------------------------- ResultsAnalyzer: the arguments after a call
\* mutant of CompareMetricsAcrossLevelsFrame: the two columns are written to df itself
CompareMetricsAcrossLevelsFrameInPlace(df, metric) ==
    LET r == CompareMetricsAcrossLevels(df, metric)
    IN  IF r.raised THEN df
        ELSE Table(df.columns \cup {"change", "percent_change"},
                   [i \in 1..Len(df.rows) |->
                       [c \in df.columns \cup {"change", "percent_change"} |->
                           IF c \in {"change", "percent_change"} THEN r.table.rows[i][c]
                           ELSE df.rows[i][c]]])

\* df after compare_metrics_across_levels: 'change' and 'percent_change' are
\* assigned to comparison, the copy of the two selected columns; df is read only
CompareMetricsAcrossLevelsFrame(df, metric) == df

\* df after filter_by_error_range: the mask selects into a new table
FilterByErrorRangeFrame(df, min_error, max_error) == df

\* df after get_error_level_statistics: the mask selects into filtered, whose
\* first row is read
GetErrorLevelStatisticsFrame(df, error_level) == df

\* results and metrics_df after generate_summary_report: both are read only
GenerateSummaryReportFrame(results, metrics_df) ==
    [results |-> results, metrics_df |-> metrics_df]

\* results after create_comparison_dataframe: every row is a new dict
CreateComparisonDataframeFrame(results) == results

\* ---------------------------------------------------------------- DataLoader
MaxSteps == 4

Paths == {"p", "q"}

\* what a path holds when a load looks at it: nothing; an empty file, which
\* is neither JSON nor CSV; the JSON document {}; a JSON document whose
\* 'sentences' and 'results' are null; or one of two well-formed documents
\* with both keys.  Every file but the empty one reads as a CSV table.
FileStates == {"missing", "empty", "no_key", "unsized", "v1", "v2"}

FileNotFoundError(msg) == [type |-> "FileNotFoundError", msg |-> msg]
TypeError(msg) == [type |-> "TypeError", msg |-> msg]
EmptyDataError(msg) == [type |-> "EmptyDataError", msg |-> msg]

\* what json.load or pd.read_csv builds: a new object each time, known by
\* its identity, holding what the file held
Object(id, content) == [id |-> id, content |-> content]
NoObject == Object(0, "none")

\* f"input_{file_path}", f"results_{file_path}", f"metrics_{file_path}"
CacheKey(prefix, file_path) == <<prefix, file_path>>

NoCache == [k \in {} |-> NoObject]
Store(cache, key, obj) ==
    [k \in DOMAIN cache \cup {key} |-> IF k = key THEN obj ELSE cache[k]]

\* ---- get_result_summary
NoText == [k \in {} |-> ""]
SummaryLists ==
    {<<>>, <<Entry(7)>>, <<Entry(7), Entry(10)>>, <<Entry(10), Entry(7)>>,
     <<Entry(7), Entry(7), Entry(10)>>, <<[id |-> "s1"]>>, <<Entry(7), [id |-> "s1"]>>}
HeadValues ==
    [experiment_id |-> "test_exp", timestamp |-> "2025-01-01", mode |-> "batch",
     input_file |-> "input.json"]
SummaryHeads == {[k \in keys |-> HeadValues[k]] : keys \in SUBSET DOMAIN HeadValues}
\* the mappings get_result_summary is called with: with or without each of
\* the four descriptive keys and a result list, whose entries may lack
\* error_rate
SummaryResults ==
    {[head |-> h, has_results |-> FALSE, results |-> <<>>] : h \in SummaryHeads}
    \cup {[head |-> h, has_results |-> TRUE, results |-> l] :
             h \in SummaryHeads, l \in SummaryLists}

NoResultSummary == [k \in {} |-> 0]
ResultSummaryReturned(summary) == [raised |-> FALSE, error |-> NoError, summary |-> summary]
ResultSummaryRaised(err) == [raised |-> TRUE, error |-> err, summary |-> NoResultSummary]

\* DataLoader.get_result_summary
GetResultSummary(results) ==
    LET result_list == IF results.has_results THEN results.results ELSE <<>>
        error_rates == [i \in 1..Len(result_list) |-> Num(result_list[i].error_rate, 100)]
    IN  IF result_list = <<>>
        THEN ResultSummaryReturned([error |-> "No results found"])
        ELSE IF \E i \in 1..Len(result_list) : "error_rate" \notin DOMAIN result_list[i]
        THEN ResultSummaryRaised(KeyError("error_rate"))
        ELSE ResultSummaryReturned(
                 [experiment_id |-> Get(results.head, "experiment_id", "unknown"),
                  timestamp |-> Get(results.head, "timestamp", "unknown"),
                  mode |-> Get(results.head, "mode", "unknown"),
                  input_file |-> Get(results.head, "input_file", "unknown"),
                  num_sentences |-> Len(result_list),
                  error_rate_min |-> ColumnMin(error_rates),
                  error_rate_max |-> ColumnMax(error_rates),
                  error_rate_step |-> IF Len(error_rates) > 1
                                      THEN FloatMinus(error_rates[2], error_rates[1])
                                      ELSE Num(0, 1)])

\* ---- the loader
\* the last call: what it was asked, what the path held, what came of it,
\* whether it opened the file, and the cache it found; first is the object
\* the first load of this key returned since the cache was last cleared,
\* fresh says no load of this key was made since then
NoLoad ==
    [op |-> "none", file_path |-> "", key |-> <<>>, file |-> "none",
     raised |-> FALSE, error |-> NoError, returned |-> NoObject, read |-> FALSE,
     cache_before |-> NoCache, first |-> NoObject, fresh |-> FALSE,
     results |-> [head |-> NoText, has_results |-> FALSE, results |-> <<>>],
     summary |-> NoResultSummary]

\* DataLoader.__init__ beside the files it will read; loaded, called and
\* cleared remember the loads made since the last clear_cache
NewLoader(files) ==
    [cache |-> NoCache, files |-> files, objects |-> 0, calls |-> 0, changes |-> 0,
     loaded |-> NoCache, called |-> {}, cleared |-> FALSE, last |-> NoLoad]
NoLoader == NewLoader([f \in Paths |-> "missing"])

LoadCall(l, op, cache_key, file_path) ==
    [NoLoad EXCEPT !.op = op, !.file_path = file_path, !.key = cache_key,
                   !.file = l.files[file_path], !.cache_before = l.cache,
                   !.first = Get(l.loaded, cache_key, NoObject),
                   !.fresh = cache_key \notin l.called]

\* the outcome of a load: the loader after a return or a raise
LoadReturns(l, c, obj, read, cache) ==
    [l EXCEPT !.cache = cache, !.calls = @ + 1,
              !.objects = IF read THEN @ + 1 ELSE @,
              !.called = @ \cup {c.key},
              !.loaded = IF c.key \in DOMAIN @ THEN @ ELSE Store(@, c.key, obj),
              !.last = [c EXCEPT !.returned = obj, !.read = read]]
LoadRaises(l, c, err, read, cache) ==
    [l EXCEPT !.cache = cache, !.calls = @ + 1,
              !.objects = IF read THEN @ + 1 ELSE @,
              !.called = @ \cup {c.key},
              !.last = [c EXCEPT !.raised = TRUE, !.error = err, !.read = read]]

\* load_input_dataset and load_results without the look into the cache
LoadJsonUncached(l, op, prefix, required, title, what, file_path) ==
    LET cache_key == CacheKey(prefix, file_path)
        c == LoadCall(l, op, cache_key, file_path)
        data == Object(l.objects + 1, l.files[file_path])
    IN  IF l.files[file_path] = "missing"
        THEN LoadRaises(l, c, FileNotFoundError(<<title, " file not found: ", file_path>>),
                        FALSE, l.cache)
        ELSE IF l.files[file_path] = "empty"
        THEN LoadRaises(l, c, ValueError(<<"Invalid JSON format: ">>), TRUE, l.cache)
        ELSE IF l.files[file_path] = "no_key"
        THEN LoadRaises(l, c, ValueError(<<"Invalid ", what, " format: missing '",
                                           required, "' key">>), TRUE, l.cache)
        ELSE IF l.files[file_path] = "unsized"
        THEN LoadRaises(l, c, TypeError(<<"object of type 'NoneType' has no len()">>),
                        TRUE, Store(l.cache, cache_key, data))
        ELSE LoadReturns(l, c, data, TRUE, Store(l.cache, cache_key, data))

\* load_input_dataset and load_results, which differ in their words only:
\* the cache is asked first; the document is stored once its key is found
\* and before its entries are counted for the log line
LoadJson(l, op, prefix, required, title, what, file_path) ==
    LET cache_key == CacheKey(prefix, file_path)
        c == LoadCall(l, op, cache_key, file_path)
        data == Object(l.objects + 1, l.files[file_path])
    IN  IF cache_key \in DOMAIN l.cache
        THEN LoadReturns(l, c, l.cache[cache_key], FALSE, l.cache)
        ELSE IF l.files[file_path] = "missing"
        THEN LoadRaises(l, c, FileNotFoundError(<<title, " file not found: ", file_path>>),
                        FALSE, l.cache)
        ELSE IF l.files[file_path] = "empty"
        THEN LoadRaises(l, c, ValueError(<<"Invalid JSON format: ">>), TRUE, l.cache)
        ELSE IF l.files[file_path] = "no_key"
        THEN LoadRaises(l, c, ValueError(<<"Invalid ", what, " format: missing '",
                                           required, "' key">>), TRUE, l.cache)
        ELSE IF l.files[file_path] = "unsized"
        THEN LoadRaises(l, c, TypeError(<<"object of type 'NoneType' has no len()">>),
                        TRUE, Store(l.cache, cache_key, data))
        ELSE LoadReturns(l, c, data, TRUE, Store(l.cache, cache_key, data))

\* DataLoader.load_input_dataset
LoadInputDataset(l, file_path) ==
    LoadJson(l, "load_input_dataset", "input_", "sentences", "Input", "dataset", file_path)

\* DataLoader.load_results
LoadResults(l, file_path) ==
    LoadJson(l, "load_results", "results_", "results", "Results", "results", file_path)

\* DataLoader.load_metrics
LoadMetrics(l, file_path) ==
    LET cache_key == CacheKey("metrics_", file_path)
        c == LoadCall(l, "load_metrics", cache_key, file_path)
        df == Object(l.objects + 1, l.files[file_path])
    IN  IF cache_key \in DOMAIN l.cache
        THEN LoadReturns(l, c, l.cache[cache_key], FALSE, l.cache)
        ELSE IF l.files[file_path] = "missing"
        THEN LoadRaises(l, c, FileNotFoundError(<<"Metrics file not found: ", file_path>>),
                        FALSE, l.cache)
        ELSE IF l.files[file_path] = "empty"
        THEN LoadRaises(l, c, EmptyDataError(<<"No columns to parse from file">>),
                        TRUE, l.cache)
        ELSE LoadReturns(l, c, df, TRUE, Store(l.cache, cache_key, df))

\* clear_cache that forgets the datasets and keeps results and metrics
ClearCacheInputsOnly(l) ==
    [l EXCEPT !.cache = [k \in {j \in DOMAIN @ : j[1] # "input_"} |-> @[k]],
              !.calls = @ + 1, !.loaded = NoCache, !.called = {}, !.cleared = TRUE,
              !.last = [NoLoad EXCEPT !.op = "clear_cache", !.cache_before = l.cache]]

\* DataLoader.clear_cache
ClearCache(l) ==
    [l EXCEPT !.cache = NoCache,
              !.calls = @ + 1, !.loaded = NoCache, !.called = {}, !.cleared = TRUE,
              !.last = [NoLoad EXCEPT !.op = "clear_cache", !.cache_before = l.cache]]

\* ---------------------------------------------------------------- retries
MaxRetries == 3

\* what one call of translate_func comes to: a translation, or an exception
Translated(value) == [kind |-> "value", value |-> value, error |-> NoError]
Failed(err) == [kind |-> "error", value |-> "", error |-> err]

\* google.api_core.exceptions.ResourceExhausted with its message, in pieces
ResourceExhausted(msg) == [type |-> "ResourceExhausted", msg |-> msg]
RuntimeError(msg) == [type |-> "RuntimeError", msg |-> msg]

\* messages of the rate limiter: without a hint, with a delay in seconds,
\* with a hint that names no number
QuotaMessages ==
    {<<"Quota exceeded">>,
     <<"Quota exceeded. ", "Retry in ", "5", "s">>,
     <<"Quota exceeded. ", "retry in ", "soon">>}

Outcomes ==
    {Translated("bonjour"), Translated("")}
    \cup {Failed(ResourceExhausted(msg)) : msg \in QuotaMessages}
    \cup {Failed(RuntimeError(<<"connection reset">>))}

IsRateLimit(outcome) == outcome.kind = "error" /\ outcome.error.type = "ResourceExhausted"

\* str.lower() and float() on the pieces the messages are made of
Lower(piece) == IF piece = "Retry in " THEN "retry in " ELSE piece
Digits == {"5"}
Float(piece) == IF piece = "5" THEN 5 ELSE 0

\* the delay read from the message: r'retry in (\d+\.?\d*)' on the lowered
\* message, 10 seconds when it does not match
RetryDelay(msg) ==
    LET at == {i \in 1..(Len(msg) - 1) : Lower(msg[i]) = "retry in " /\ msg[i + 1] \in Digits}
    IN  IF at = {} THEN 10
        ELSE Float(msg[(CHOOSE i \in at : \A j \in at : i <= j) + 1])

RateLimitNotice(retry_delay) == <<"Rate limit hit. Waiting ", retry_delay, " seconds...">>

\* a call of _translate_with_retry: where it stands, the attempt it is in
\* (counted from 0), what translate_func did on each invocation, the sleeps
\* made, what the progress callback was told, and what came out
NoRetry ==
    [state |-> "idle", max_retries |-> 0, has_callback |-> FALSE, attempt |-> 0,
     log |-> <<>>, retry_delay |-> 0, sleeps |-> <<>>, notices |-> <<>>,
     value |-> "", error |-> NoError]

\* the call up to the loop: the import, then range(max_retries)
StartTranslateWithRetry(max_retries, has_callback, installed) ==
    IF ~installed
    THEN [NoRetry EXCEPT !.state = "raised", !.max_retries = max_retries,
                         !.has_callback = has_callback,
                         !.error = ImportError(<<"No module named 'google.api_core'">>)]
    ELSE IF max_retries <= 0
    THEN [NoRetry EXCEPT !.state = "returned", !.max_retries = max_retries,
                         !.has_callback = has_callback, !.value = ""]
    ELSE [NoRetry EXCEPT !.state = "calling", !.max_retries = max_retries,
                         !.has_callback = has_callback]

\* one pass of the loop that takes every exception for a rate limit
AttemptRetryingAll(r, outcome) ==
    LET logged == [r EXCEPT !.log = Append(@, outcome)]
        retry_delay == IF IsRateLimit(outcome) THEN RetryDelay(outcome.error.msg) ELSE 10
    IN  IF outcome.kind = "value"
        THEN [logged EXCEPT !.state = "returned", !.value = outcome.value]
        ELSE IF r.attempt < r.max_retries - 1
        THEN [logged EXCEPT !.state = "waiting", !.retry_delay = retry_delay,
                            !.notices = IF r.has_callback
                                        THEN Append(@, RateLimitNotice(retry_delay))
                                        ELSE @]
        ELSE [logged EXCEPT !.state = "raised", !.error = outcome.error]

\* one pass of the loop: translate_func is invoked; its value is returned,
\* ResourceExhausted leads to the sleep or, on the last attempt, is raised
\* again, any other exception leaves the method
Attempt(r, outcome) ==
    LET logged == [r EXCEPT !.log = Append(@, outcome)]
        retry_delay == RetryDelay(outcome.error.msg)
    IN  IF outcome.kind = "value"
        THEN [logged EXCEPT !.state = "returned", !.value = outcome.value]
        ELSE IF ~IsRateLimit(outcome)
        THEN [logged EXCEPT !.state = "raised", !.error = outcome.error]
        ELSE IF r.attempt < r.max_retries - 1
        THEN [logged EXCEPT !.state = "waiting", !.retry_delay = retry_delay,
                            !.notices = IF r.has_callback
                                        THEN Append(@, RateLimitNotice(retry_delay))
                                        ELSE @]
        ELSE [logged EXCEPT !.state = "raised", !.error = outcome.error]

\* time.sleep(retry_delay + 1), then the next pass of the loop
Sleep(r) ==
    [r EXCEPT !.state = "calling", !.sleeps = Append(@, r.retry_delay + 1),
              !.attempt = @ + 1]

\* no ResultsAnalyzer call made
NoAnalysis ==
    [op |-> "", original |-> <<>>, final |-> <<>>,
     df |-> NoTable, metric |-> "", min_error |-> 0, max_error |-> 0,
     results |-> NoResults, error_level |-> 0, built |-> FALSE,
     df_after |-> NoTable, results_after |-> NoResults,
     raised |-> FALSE, error |-> NoError,
     changes |-> NoChanges, table |-> NoTable, summary |-> NoSummary,
     stats |-> NoStats]

Init ==
    /\ use_openai \in BOOLEAN
    /\ scipy_zero_norm \in {"nan", "zero"}
    /\ pc = "idle"
    /\ call = NoCall
    /\ backend = NoAnswers
    /\ result = NoResult
    /\ embedder = NoEmbedder
    /\ analysis = NoAnalysis
    /\ faults = FALSE
    /\ loader = NoLoader
    /\ retry = NoRetry

Finish(c, bk, r) ==
    /\ pc' = "done"
    /\ call' = c
    /\ backend' = Restrict(bk, Asked(r))
    /\ result' = r
    /\ UNCHANGED <<use_openai, scipy_zero_norm, embedder, analysis, faults, loader, retry>>

CallEncode ==
    /\ pc = "idle"
    /\ \E input \in {StrInput(t) : t \in Texts} \cup {ListInput(l) : l \in TextLists},
          normalize \in BOOLEAN :
          \E bk \in Backends(IF input.is_str THEN {input.s} ELSE Range(input.l)) :
             LET e == Encode(use_openai, bk, input, normalize)
             IN  Finish([NoCall EXCEPT !.op = "encode", !.input = input,
                                       !.normalize = normalize],
                        bk,
                        IF e.raised THEN Raised(e.error, <<>>, e.calls)
                        ELSE Returned(F(0), NoMetrics, e.embeddings, <<>>, e.calls))

CallCalculateDistance ==
    /\ pc = "idle"
    /\ \E text1 \in Texts, text2 \in Texts, metric \in MetricNames :
          \E bk \in Backends({text1, text2}) :
             Finish(TextCall("calculate_distance", text1, text2, metric), bk,
                    CalculateDistance(bk, text1, text2, metric))

CallCalculateSimilarity ==
    /\ pc = "idle"
    /\ \E text1 \in Texts, text2 \in Texts, metric \in MetricNames :
          \E bk \in Backends({text1, text2}) :
             Finish(TextCall("calculate_similarity", text1, text2, metric), bk,
                    CalculateSimilarity(bk, text1, text2, metric))

CallCalculateAllMetrics ==
    /\ pc = "idle"
    /\ \E text1 \in Texts, text2 \in Texts :
          \E bk \in Backends({text1, text2}) :
             Finish(TextCall("calculate_all_metrics", text1, text2, ""), bk,
                    CalculateAllMetrics(bk, text1, text2))

CallCosineDistance ==
    /\ pc = "idle"
    /\ \E vec1 \in RawVectors, vec2 \in RawVectors :
          Finish(VectorCall("cosine_distance", vec1, vec2), NoAnswers,
                 Returned(CosineDistance(vec1, vec2), NoMetrics, <<>>, <<>>, <<>>))

CallCosineSimilarity ==
    /\ pc = "idle"
    /\ \E vec1 \in RawVectors, vec2 \in RawVectors :
          Finish(VectorCall("cosine_similarity", vec1, vec2), NoAnswers,
                 Returned(CosineSimilarity(vec1, vec2), NoMetrics, <<>>, <<>>, <<>>))

CallEuclideanDistance ==
    /\ pc = "idle"
    /\ \E vec1 \in RawVectors, vec2 \in RawVectors :
          Finish(VectorCall("euclidean_distance", vec1, vec2), NoAnswers,
                 Returned(EuclideanDistance(vec1, vec2), NoMetrics, <<>>, <<>>, <<>>))

CallManhattanDistance ==
    /\ pc = "idle"
    /\ \E vec1 \in RawVectors, vec2 \in RawVectors :
          Finish(VectorCall("manhattan_distance", vec1, vec2), NoAnswers,
                 Returned(ManhattanDistance(vec1, vec2), NoMetrics, <<>>, <<>>, <<>>))

\* the caller takes the outcome; the next call starts from scratch
Return ==
    /\ pc = "done"
    /\ pc' = "idle"
    /\ call' = NoCall
    /\ backend' = NoAnswers
    /\ result' = NoResult
    /\ UNCHANGED <<use_openai, scipy_zero_norm, embedder, analysis, faults, loader, retry>>

Next ==
    \/ CallEncode
    \/ CallCalculateDistance
    \/ CallCalculateSimilarity
    \/ CallCalculateAllMetrics
    \/ CallCosineDistance
    \/ CallCosineSimilarity
    \/ CallEuclideanDistance
    \/ CallManhattanDistance
    \/ Return

Spec == Init /\ [][Next]_vars

\* the same calls on an Embedder constructed with use_openai=True
InitRemote == Init /\ use_openai
SpecRemote == InitRemote /\ [][Next]_vars

\* the same calls when the model or the API may fail
InitFaulty ==
    /\ use_openai \in BOOLEAN
    /\ scipy_zero_norm \in {"nan", "zero"}
    /\ pc = "idle"
    /\ call = NoCall
    /\ backend = NoAnswers
    /\ result = NoResult
    /\ embedder = NoEmbedder
    /\ analysis = NoAnalysis
    /\ faults = TRUE
    /\ loader = NoLoader
    /\ retry = NoRetry

SpecFaulty == InitFaulty /\ [][Next]_vars

\* ---------------------------------------------------------------- constructing an Embedder
MaxQueries == 2    \* dimension queries followed on one instance

InitEmbedder ==
    /\ use_openai = FALSE
    /\ scipy_zero_norm = "nan"
    /\ pc = "idle"
    /\ call = NoCall
    /\ backend = NoAnswers
    /\ result = NoResult
    /\ embedder = NoEmbedder
    /\ analysis = NoAnalysis
    /\ faults = FALSE
    /\ loader = NoLoader
    /\ retry = NoRetry

NewEmbedder ==
    /\ embedder.state = "none"
    /\ \E model_name \in ModelNames, use_openai_arg \in BOOLEAN,
          openai_api_key \in ApiKeys, installed \in BOOLEAN, dim \in LocalDimensions :
          embedder' = EmbedderInit(model_name, use_openai_arg, openai_api_key,
                                   installed, dim)
    /\ UNCHANGED <<use_openai, scipy_zero_norm, pc, call, backend, result, analysis,
                   faults, loader, retry>>

CallGetEmbeddingDimension ==
    /\ embedder.state = "ready"
    /\ embedder.queries < MaxQueries
    /\ LET d == GetEmbeddingDimension(embedder)
       IN  embedder' = [embedder EXCEPT
                           !.dimension = d.dimension,
                           !.dimension_calls = d.calls,
                           !.queries = @ + 1,
                           !.dimensions_seen = @ \cup {d.dimension}]
    /\ UNCHANGED <<use_openai, scipy_zero_norm, pc, call, backend, result, analysis,
                   faults, loader, retry>>

NextEmbedder ==
    \/ NewEmbedder
    \/ CallGetEmbeddingDimension

SpecEmbedder == InitEmbedder /\ [][NextEmbedder]_vars

\* ---------------------------------------------------------------- calling the ResultsAnalyzer
InitAnalyzer == InitEmbedder

\* a call is made when none is in progress (Idle); its arguments and outcome are kept
Idle == analysis = NoAnalysis

Analysed(a) ==
    /\ analysis' = a
    /\ UNCHANGED <<use_openai, scipy_zero_norm, pc, call, backend, result, embedder,
                   faults, loader, retry>>

CallCalculateTextChanges ==
    /\ Idle
    /\ \E original \in AnalyzerTexts, final \in AnalyzerTexts :
           LET r == CalculateTextChanges(original, final)
           IN  Analysed([NoAnalysis EXCEPT !.op = "calculate_text_changes",
                                           !.original = original, !.final = final,
                                           !.raised = r.raised, !.error = r.error,
                                           !.changes = r.changes])

CallCompareMetricsAcrossLevels ==
    /\ Idle
    /\ \E df \in Tables, metric \in MetricArgs :
           LET r == CompareMetricsAcrossLevels(df, metric)
           IN  Analysed([NoAnalysis EXCEPT !.op = "compare_metrics_across_levels",
                                           !.df = df, !.metric = metric,
                                           !.df_after =
                                               CompareMetricsAcrossLevelsFrame(df, metric),
                                           !.raised = r.raised, !.error = r.error,
                                           !.table = r.table])

CallFilterByErrorRange ==
    /\ Idle
    /\ \E df \in Tables, min_error \in ErrorRates, max_error \in ErrorRates :
           LET r == FilterByErrorRange(df, min_error, max_error)
           IN  Analysed([NoAnalysis EXCEPT !.op = "filter_by_error_range",
                                           !.df = df, !.min_error = min_error,
                                           !.max_error = max_error,
                                           !.df_after =
                                               FilterByErrorRangeFrame(df, min_error, max_error),
                                           !.raised = r.raised, !.error = r.error,
                                           !.table = r.table])

CallGenerateSummaryReport ==
    /\ Idle
    /\ \E results \in ResultsDicts, metrics_df \in {NoTable} \cup Tables :
           Analysed([NoAnalysis EXCEPT !.op = "generate_summary_report",
                                       !.results = results, !.df = metrics_df,
                                       !.results_after =
                                           GenerateSummaryReportFrame(results, metrics_df).results,
                                       !.df_after =
                                           GenerateSummaryReportFrame(results, metrics_df).metrics_df,
                                       !.summary = GenerateSummaryReport(results, metrics_df)])

CallCreateComparisonDataframe ==
    /\ Idle
    /\ \E results \in ComparisonResults :
           LET r == CreateComparisonDataframe(results)
           IN  Analysed([NoAnalysis EXCEPT !.op = "create_comparison_dataframe",
                                           !.results = results,
                                           !.results_after =
                                               CreateComparisonDataframeFrame(results),
                                           !.raised = r.raised, !.error = r.error,
                                           !.table = r.table])

\* get_error_level_statistics on a table create_comparison_dataframe returned
\* for some results (built), or on a table of metrics
CallGetErrorLevelStatistics ==
    /\ Idle
    /\ \E error_level \in ErrorRates :
          \/ \E results \in {d \in ComparisonResults : ~CreateComparisonDataframe(d).raised} :
                LET df == CreateComparisonDataframe(results).table
                    r == GetErrorLevelStatistics(df, error_level)
                IN  Analysed([NoAnalysis EXCEPT !.op = "get_error_level_statistics",
                                                !.results = results, !.built = TRUE,
                                                !.results_after = results,
                                                !.df = df, !.error_level = error_level,
                                                !.df_after =
                                                    GetErrorLevelStatisticsFrame(df, error_level),
                                                !.raised = r.raised, !.error = r.error,
                                                !.stats = r.stats])
          \/ \E df \in Tables :
                LET r == GetErrorLevelStatistics(df, error_level)
                IN  Analysed([NoAnalysis EXCEPT !.op = "get_error_level_statistics",
                                                !.df = df, !.error_level = error_level,
                                                !.df_after =
                                                    GetErrorLevelStatisticsFrame(df, error_level),
                                                !.raised = r.raised, !.error = r.error,
                                                !.stats = r.stats])

\* the caller takes the outcome; the next call starts from scratch
ReturnAnalysis ==
    /\ analysis # NoAnalysis
    /\ analysis' = NoAnalysis
    /\ UNCHANGED <<use_openai, scipy_zero_norm, pc, call, backend, result, embedder,
                   faults, loader, retry>>

NextAnalyzer ==
    \/ CallCalculateTextChanges
    \/ CallCompareMetricsAcrossLevels
    \/ CallFilterByErrorRange
    \/ CallGenerateSummaryReport
    \/ CallCreateComparisonDataframe
    \/ CallGetErrorLevelStatistics
    \/ ReturnAnalysis

SpecAnalyzer == InitAnalyzer /\ [][NextAnalyzer]_vars


\* ---------------------------------------------------------------- DataLoader calls
\* A DataLoader beside the files it is pointed at: loads and clear_cache in
\* any order, while the files are written and removed behind its back.
InitLoader ==
    /\ use_openai = FALSE
    /\ scipy_zero_norm = "nan"
    /\ pc = "idle"
    /\ call = NoCall
    /\ backend = NoAnswers
    /\ result = NoResult
    /\ embedder = NoEmbedder
    /\ analysis = NoAnalysis
    /\ faults = FALSE
    /\ loader \in {NewLoader(files) : files \in [Paths -> FileStates]}
    /\ retry = NoRetry

Loaded(l) ==
    /\ loader' = l
    /\ UNCHANGED <<use_openai, scipy_zero_norm, pc, call, backend, result, embedder,
                   analysis, faults, retry>>

CallLoadInputDataset ==
    /\ loader.calls + loader.changes < MaxSteps
    /\ \E file_path \in Paths : Loaded(LoadInputDataset(loader, file_path))

CallLoadResults ==
    /\ loader.calls + loader.changes < MaxSteps
    /\ \E file_path \in Paths : Loaded(LoadResults(loader, file_path))

CallLoadMetrics ==
    /\ loader.calls + loader.changes < MaxSteps
    /\ \E file_path \in Paths : Loaded(LoadMetrics(loader, file_path))

CallClearCache ==
    /\ loader.calls + loader.changes < MaxSteps
    /\ Loaded(ClearCache(loader))

\* somebody writes, rewrites or removes a file
FileChanges ==
    /\ loader.calls + loader.changes < MaxSteps
    /\ \E file_path \in Paths, state \in FileStates :
          /\ state # loader.files[file_path]
          /\ Loaded([loader EXCEPT !.files[file_path] = state, !.changes = @ + 1])

NextLoader ==
    \/ CallLoadInputDataset
    \/ CallLoadResults
    \/ CallLoadMetrics
    \/ CallClearCache
    \/ FileChanges

SpecLoader == InitLoader /\ [][NextLoader]_vars


\* get_result_summary, which looks at its argument only
CallGetResultSummary ==
    /\ loader.last.op = "none"
    /\ \E results \in SummaryResults :
          LET r == GetResultSummary(results)
          IN  Loaded([loader EXCEPT
                         !.last = [NoLoad EXCEPT !.op = "get_result_summary",
                                                 !.results = results,
                                                 !.raised = r.raised,
                                                 !.error = r.error,
                                                 !.summary = r.summary]])

ReturnResultSummary ==
    /\ loader.last.op = "get_result_summary"
    /\ Loaded([loader EXCEPT !.last = NoLoad])

NextSummary ==
    \/ CallGetResultSummary
    \/ ReturnResultSummary

SpecSummary == InitEmbedder /\ [][NextSummary]_vars


\* ---------------------------------------------------------------- retries
\* One call of _translate_with_retry at a time, step by step; translate_func
\* does on each invocation whatever it likes.
Retried(r) ==
    /\ retry' = r
    /\ UNCHANGED <<use_openai, scipy_zero_norm, pc, call, backend, result, embedder,
                   analysis, faults, loader>>

CallTranslateWithRetry ==
    /\ retry.state = "idle"
    /\ \E max_retries \in 0..MaxRetries, has_callback \in BOOLEAN, installed \in BOOLEAN :
          Retried(StartTranslateWithRetry(max_retries, has_callback, installed))

InvokeTranslateFunc ==
    /\ retry.state = "calling"
    /\ \E outcome \in Outcomes : Retried(Attempt(retry, outcome))

SleepBeforeRetry ==
    /\ retry.state = "waiting"
    /\ Retried(Sleep(retry))

ReturnTranslateWithRetry ==
    /\ retry.state \in {"returned", "raised"}
    /\ Retried(NoRetry)

NextRetry ==
    \/ CallTranslateWithRetry
    \/ InvokeTranslateFunc
    \/ SleepBeforeRetry
    \/ ReturnTranslateWithRetry

SpecRetry == InitEmbedder /\ [][NextRetry]_vars

\* ---------------------------------------------------------------- properties
Done(op) == pc = "done" /\ call.op = op
Ret(op) == Done(op) /\ ~result.raised

PairEncodes(normalize) ==
    <<EncodeCall(call.text1, normalize), EncodeCall(call.text2, normalize)>>

IsZero(x) == ~x.nan /\ x.v = 0
NonZeroNorm(v) == Dot(v, v) # 0
Supported == {"cosine", "euclidean", "manhattan"}

\* the two vectors a returned call of a VectorMetrics text method worked on
Emb1 == backend[call.text1]
Emb2 == backend[call.text2]

\* C1: in the mapping calculate_all_metrics returns, cosine_distance +
\* cosine_similarity == 1, for every pair of texts.
C1_DistancePlusSimilarityIsOne ==
    Ret("calculate_all_metrics") =>
        FEq(FAdd(result.metrics.cosine_distance, result.metrics.cosine_similarity), One)

\* C2 (as stated): every call of calculate_all_metrics invokes encode exactly
\* twice, for text1 and then text2, both with normalize=false.
C2_EveryCallEncodesTwice ==
    Done("calculate_all_metrics") => result.encodes = PairEncodes(FALSE)

\* C2 (amended): a call of calculate_all_metrics that returns has invoked
\* encode exactly twice, for text1 and then text2, both with normalize=false,
\* and its four values are the four metrics of the two vectors those calls
\* gave; a call that raises has invoked encode once (text1 was refused) or
\* twice (text2 was refused), in that order and with normalize=false.
C2_EncodesEachTextOnce ==
    Done("calculate_all_metrics") =>
        IF result.raised
        THEN result.encodes \in {<<EncodeCall(call.text1, FALSE)>>, PairEncodes(FALSE)}
        ELSE /\ result.encodes = PairEncodes(FALSE)
             /\ result.metrics =
                  [cosine_distance |-> CosineDistance(Emb1, Emb2),
                   cosine_similarity |-> CosineSimilarity(Emb1, Emb2),
                   euclidean_distance |-> EuclideanDistance(Emb1, Emb2),
                   manhattan_distance |-> ManhattanDistance(Emb1, Emb2)]

C2_Witness ==
    /\ Ret("calculate_all_metrics")
    /\ call.text1 # call.text2
    /\ Len(result.encodes) = 2
    /\ Emb1 # Emb2

\* C3 (as stated): every value of calculate_all_metrics(a, b) is identical to
\* the value of the corresponding individual call, cosine_similarity to
\* calculate_similarity(a, b, 'cosine') included.
C3_AllMetricsIdenticalToSingleCalls ==
    Ret("calculate_all_metrics") =>
        /\ result.metrics.cosine_distance
              = CalculateDistance(backend, call.text1, call.text2, "cosine").value
        /\ result.metrics.euclidean_distance
              = CalculateDistance(backend, call.text1, call.text2, "euclidean").value
        /\ result.metrics.manhattan_distance
              = CalculateDistance(backend, call.text1, call.text2, "manhattan").value
        /\ result.metrics.cosine_similarity
              = CalculateSimilarity(backend, call.text1, call.text2, "cosine").value

\* C3 (amended): the three distances of calculate_all_metrics(a, b) are
\* identical to calculate_distance(a, b, m); cosine_similarity is identical to
\* calculate_similarity(a, b, 'cosine') with the remote API, whose encode
\* ignores normalize, and with the local model agrees with it to within one
\* unit of rounding (both are NaN together).
C3_DistancesIdenticalSimilarityRounded ==
    Ret("calculate_all_metrics") =>
        LET all == result.metrics.cosine_similarity
            one == CalculateSimilarity(backend, call.text1, call.text2, "cosine").value
        IN  /\ result.metrics.cosine_distance
                  = CalculateDistance(backend, call.text1, call.text2, "cosine").value
            /\ result.metrics.euclidean_distance
                  = CalculateDistance(backend, call.text1, call.text2, "euclidean").value
            /\ result.metrics.manhattan_distance
                  = CalculateDistance(backend, call.text1, call.text2, "manhattan").value
            /\ use_openai => all = one
            /\ ~use_openai => all.nan = one.nan /\ Abs(all.v - one.v) <= 1

C3_Witness ==
    /\ Ret("calculate_all_metrics")
    /\ ~use_openai
    /\ result.metrics.cosine_similarity
          # CalculateSimilarity(backend, call.text1, call.text2, "cosine").value
    /\ result.metrics.euclidean_distance.v > 0

\* C4: encode with normalize=true returns, for either backend, embeddings of
\* L2 norm 1 that are the unit-normalization of what normalize=false returns.
C4_NormalizeGivesUnitVectors ==
    Ret("encode") /\ call.normalize =>
        \A i \in 1..Len(result.embeddings) :
            LET raw == Encode(use_openai, backend, call.input, FALSE).embeddings[i]
            IN  /\ Norm(result.embeddings[i]) = Scale
                /\ result.embeddings[i] = UnitNormalize(raw)

\* C5: with a zero-norm embedding the cosine computations never return NaN:
\* they return a value or raise.
C5_NoNaNOnZeroNorm ==
    /\ (Ret("cosine_distance") \/ Ret("cosine_similarity"))
          /\ (~NonZeroNorm(call.vec1) \/ ~NonZeroNorm(call.vec2))
          => ~result.value.nan
    /\ Ret("calculate_distance") /\ call.metric = "cosine"
          /\ (~NonZeroNorm(Emb1) \/ ~NonZeroNorm(Emb2))
          => ~result.value.nan
    /\ Ret("calculate_all_metrics") /\ (~NonZeroNorm(Emb1) \/ ~NonZeroNorm(Emb2))
          => ~result.metrics.cosine_distance.nan /\ ~result.metrics.cosine_similarity.nan

\* a text is blank when every character of it is whitespace
Blank(t) == \A i \in 1..Len(t) : t[i] \in Whitespace

\* C6: encode raises the input error, before any backend call, exactly when
\* the input is a blank string, an empty list, or a list with a blank element.
C6_InputErrorIffBlank ==
    Done("encode") =>
        LET bad == IF call.input.is_str THEN Blank(call.input.s)
                   ELSE \/ Len(call.input.l) = 0
                        \/ \E i \in 1..Len(call.input.l) : Blank(call.input.l[i])
        IN  /\ bad => /\ result.raised
                      /\ result.error.type = "ValueError"
                      /\ result.calls = <<>>
            /\ ~bad => ~result.raised /\ result.calls # <<>>

C6_Witness ==
    /\ Done("encode")
    /\ ~call.input.is_str
    /\ Len(call.input.l) = 2
    /\ ~Blank(call.input.l[1])
    /\ Blank(call.input.l[2])
    /\ result.raised
    /\ result.calls = <<>>

\* C7: calculate_distance with a metric name other than the three supported
\* ones raises the error whose message lists all three, and has not called
\* the embedder.
C7_UnsupportedMetricRaisesFirst ==
    Done("calculate_distance") /\ call.metric \notin Supported =>
        /\ result.raised
        /\ result.error.type = "ValueError"
        /\ Supported \subseteq Range(result.error.msg)
        /\ result.encodes = <<>>
        /\ result.calls = <<>>

C7_Witness ==
    /\ Done("calculate_distance")
    /\ call.metric = "hamming"
    /\ ~Blank(call.text1)
    /\ Blank(call.text2)
    /\ result.raised
    /\ result.encodes = <<>>

\* C8: calculate_distance(t, t, m) is 0 for every non-blank text t and each
\* of the three metrics.
C8_SelfDistanceIsZero ==
    Ret("calculate_distance") /\ call.text1 = call.text2 => IsZero(result.value)

\* C9: calculate_distance(a, b, m) equals calculate_distance(b, a, m) for each
\* of the three metrics (two NaN count as the same result).
C9_DistanceSymmetric ==
    Ret("calculate_distance") =>
        LET swapped == CalculateDistance(backend, call.text2, call.text1, call.metric)
        IN  ~swapped.raised /\ swapped.value = result.value

C9_Witness ==
    /\ Ret("calculate_distance")
    /\ call.metric = "manhattan"
    /\ call.text1 # call.text2
    /\ result.value.v > Scale

\* C10: for vectors of non-zero norm, cosine_distance is in [0, 2],
\* cosine_similarity in [-1, 1], and euclidean_distance and manhattan_distance
\* are >= 0, and 0 only for equal vectors.
C10_MetricRanges ==
    pc = "done" /\ NonZeroNorm(call.vec1) /\ NonZeroNorm(call.vec2) =>
        /\ call.op = "cosine_distance" =>
              ~result.value.nan /\ 0 <= result.value.v /\ result.value.v <= 2 * Scale
        /\ call.op = "cosine_similarity" =>
              ~result.value.nan /\ -Scale <= result.value.v /\ result.value.v <= Scale
        /\ call.op \in {"euclidean_distance", "manhattan_distance"} =>
              /\ ~result.value.nan
              /\ result.value.v >= 0
              /\ result.value.v = 0 => call.vec1 = call.vec2

C10_Witness ==
    /\ Ret("cosine_similarity")
    /\ NonZeroNorm(call.vec1)
    /\ result.value = F(-Scale)

\* ---------------------------------------------------------------- Embedder construction
RemoteKeyAbsent ==
    /\ embedder.state # "none"
    /\ embedder.use_openai
    /\ (embedder.openai_api_key.is_none \/ embedder.openai_api_key.s = <<>>)

\* C11: constructing an Embedder in remote-API mode with the key None or ""
\* fails with the configuration error, before any client object is created
\* and before anything outside the object is touched; no instance results.
C11_MissingKeyFailsFast ==
    RemoteKeyAbsent =>
        /\ embedder.state = "failed"
        /\ embedder.error = ValueError(MissingKeyMsg)
        /\ ~embedder.client
        /\ embedder.events = <<>>

\* both absent keys were tried, one of them here
C11_Witness ==
    /\ RemoteKeyAbsent
    /\ embedder.openai_api_key = Str(<<>>)
    /\ embedder.state = "failed"

Queried == embedder.state = "ready" /\ embedder.queries > 0

\* C12: on a remote-API Embedder get_embedding_dimension makes no encode or
\* backend call and returns 1536 for a name containing 'small', 3072 for a
\* name containing 'large' and not 'small', 1536 for every other name; every
\* query of one instance returns the same value.
C12_RemoteDimensionFromName ==
    (Queried /\ embedder.use_openai) =>
        /\ embedder.dimension_calls = <<>>
        /\ Contains(small, embedder.model_name) => embedder.dimension = 1536
        /\ (Contains(large, embedder.model_name) /\ ~Contains(small, embedder.model_name))
               => embedder.dimension = 3072
        /\ (~Contains(large, embedder.model_name) /\ ~Contains(small, embedder.model_name))
               => embedder.dimension = 1536
        /\ embedder.dimensions_seen = {embedder.dimension}

\* a name with both words was queried twice
C12_Witness ==
    /\ Queried
    /\ embedder.use_openai
    /\ embedder.queries = 2
    /\ Contains(small, embedder.model_name)
    /\ Contains(large, embedder.model_name)
    /\ embedder.dimension = 1536

\* ---------------------------------------------------------------- ResultsAnalyzer: texts
Analysis(op) == analysis.op = op

\* the words of a text, told from its characters: a word starts after a
\* separator or at the start, and ends before a separator or at the end
IsWordChar(t, i) == t[i] \notin Whitespace
WordStart(t, i) == IsWordChar(t, i) /\ (i = 1 \/ ~IsWordChar(t, i - 1))
WordEnd(t, j) == IsWordChar(t, j) /\ (j = Len(t) \/ ~IsWordChar(t, j + 1))
WordCount(t) == Cardinality({i \in 1..Len(t) : WordStart(t, i)})
WordSet(t) ==
    {SubSeq(t, i, j) : <<i, j>> \in
        {p \in (1..Len(t)) \X (1..Len(t)) :
            /\ p[1] <= p[2]
            /\ WordStart(t, p[1])
            /\ WordEnd(t, p[2])
            /\ \A k \in p[1]..p[2] : IsWordChar(t, k)}}

\* C13: calculate_text_changes(original, original) reports every word of
\* original as common, none added, none removed and a retention rate of 1.0,
\* also when a word occurs in original more than once (stated here for the
\* texts that have a word at all).
C13_IdenticalTextsKeepEveryWord ==
    (/\ Analysis("calculate_text_changes")
     /\ analysis.original = analysis.final
     /\ WordCount(analysis.original) > 0) =>
        /\ ~analysis.raised
        /\ analysis.changes.common_words = WordCount(analysis.original)
        /\ analysis.changes.added_words = 0
        /\ analysis.changes.removed_words = 0
        /\ RatioEq(analysis.changes.word_retention_rate, Ratio(1, 1))

\* C14: calculate_text_changes splits both texts on whitespace; the two word
\* counts are the lengths of the word sequences, common_words the size of
\* the case-sensitive intersection of the word sets, added_words and
\* removed_words the numbers of distinct words only in final and only in
\* original, and word_retention_rate is common_words / original_word_count.
C14_TextChangesCounts ==
    Analysis("calculate_text_changes") =>
        /\ ~analysis.raised
        /\ analysis.changes.original_word_count = WordCount(analysis.original)
        /\ analysis.changes.final_word_count = WordCount(analysis.final)
        /\ analysis.changes.common_words =
               Cardinality(WordSet(analysis.original) \cap WordSet(analysis.final))
        /\ analysis.changes.added_words =
               Cardinality(WordSet(analysis.final) \ WordSet(analysis.original))
        /\ analysis.changes.removed_words =
               Cardinality(WordSet(analysis.original) \ WordSet(analysis.final))
        /\ WordCount(analysis.original) > 0 =>
               RatioEq(analysis.changes.word_retention_rate,
                       Ratio(analysis.changes.common_words,
                             analysis.changes.original_word_count))

\* a repeated word and its capitalised form against the word itself
C14_Witness ==
    /\ Analysis("calculate_text_changes")
    /\ analysis.original = <<"a", " ", "A">>
    /\ analysis.final = <<"a", " ", "a">>
    /\ analysis.changes.final_word_count = 2
    /\ analysis.changes.common_words = 1
    /\ analysis.changes.removed_words = 1
    /\ analysis.changes.added_words = 0

\* C15: when original has no words, original_word_count is 0 and
\* word_retention_rate is 0 whatever final is, and nothing is raised.
C15_NoWordsGivesZeroRate ==
    (Analysis("calculate_text_changes") /\ WordCount(analysis.original) = 0) =>
        /\ ~analysis.raised
        /\ analysis.changes.original_word_count = 0
        /\ analysis.changes.word_retention_rate.num = 0
        /\ analysis.changes.word_retention_rate.den # 0

\* a blank original against a final with words
C15_Witness ==
    /\ Analysis("calculate_text_changes")
    /\ analysis.original = <<" ">>
    /\ analysis.changes.final_word_count = 2
    /\ ~analysis.raised

\* ---------------------------------------------------------------- ResultsAnalyzer: tables
\* the float a is the quotient n/d
IsQuotient(a, n, d) == IsNum(a) /\ a.num * d = n * a.den
\* a cell of a metric column, counted in hundredths
Hundredths(a) == a.num * (100 \div a.den)

Compared == Analysis("compare_metrics_across_levels") /\ ~analysis.raised

\* C16: compare_metrics_across_levels returns one row per input row in the
\* same order; in the first row change and percent_change are null; in every
\* later row i, change[i] = value[i] - value[i-1] and percent_change[i] =
\* change[i] / value[i-1] * 100 for the requested column value (a float
\* quotient: an infinity over a zero value[i-1], NaN for 0/0).
C16_ChangeBetweenConsecutiveRows ==
    Compared =>
        LET rows == analysis.df.rows
            out == analysis.table.rows
            metric == analysis.metric
        IN  /\ Len(out) = Len(rows)
            /\ \A i \in 1..Len(rows) :
                  LET value == rows[i][metric]
                      change == out[i]["change"]
                      percent_change == out[i]["percent_change"]
                  IN  /\ out[i]["error_rate"] = rows[i]["error_rate"]
                      /\ out[i][metric] = value
                      /\ i = 1 => (change.kind = "nan" /\ percent_change.kind = "nan")
                      /\ i > 1 =>
                            LET before == rows[i - 1][metric]
                            IN  /\ IsQuotient(change,
                                              Hundredths(value) - Hundredths(before), 100)
                                /\ before.num # 0 =>
                                      IsQuotient(percent_change,
                                                 (Hundredths(value) - Hundredths(before)) * 100,
                                                 Hundredths(before))
                                /\ (before.num = 0 /\ change.num > 0) => percent_change = PosInf
                                /\ (before.num = 0 /\ change.num < 0) => percent_change = NegInf
                                /\ (before.num = 0 /\ change.num = 0) => percent_change = Null

\* 0.1, 0.25, 0.1: up by 0.15 (150 percent), then down by 0.15 (60 percent)
C16_Witness ==
    /\ Compared
    /\ Len(analysis.table.rows) = 3
    /\ analysis.table.rows[1]["change"] = Null
    /\ IsQuotient(analysis.table.rows[2]["change"], 15, 100)
    /\ IsQuotient(analysis.table.rows[2]["percent_change"], 150, 1)
    /\ IsQuotient(analysis.table.rows[3]["change"], -15, 100)
    /\ IsQuotient(analysis.table.rows[3]["percent_change"], -60, 1)

\* C17: compare_metrics_across_levels raises the metric-not-found error, and
\* returns no table, whenever the requested metric is not a column of the
\* input table; it never raises that error when the column exists.
C17_MetricNotFoundIffNoColumn ==
    Analysis("compare_metrics_across_levels") =>
        /\ analysis.metric \notin analysis.df.columns =>
              /\ analysis.raised
              /\ analysis.error = ValueError(MetricNotFoundMsg(analysis.metric))
              /\ analysis.table = NoTable
        /\ analysis.metric \in analysis.df.columns =>
              analysis.error # ValueError(MetricNotFoundMsg(analysis.metric))

\* a comparison table with rows, asked for a column it does not have
C17_Witness ==
    /\ Analysis("compare_metrics_across_levels")
    /\ analysis.df.columns = {"error_rate", "cosine_distance"}
    /\ Len(analysis.df.rows) = 2
    /\ analysis.metric = "euclidean_distance"
    /\ analysis.raised

\* the rows of the filtered table whose error rate lies in the asked range
Kept ==
    {i \in 1..Len(analysis.df.rows) :
        /\ PctLeq(Times100(analysis.min_error), analysis.df.rows[i]["error_rate"])
        /\ PctLeq(analysis.df.rows[i]["error_rate"], Times100(analysis.max_error))}
\* the k-th of them
KeptAt(k) == CHOOSE i \in Kept : Cardinality({j \in Kept : j <= i}) = k

\* C18: filter_by_error_range(df, min_error, max_error) returns exactly the
\* rows whose percentage error_rate r satisfies min_error*100 <= r <=
\* max_error*100, both ends included, in their order and unchanged; when no
\* row qualifies (also when min_error > max_error) the result is an empty
\* table and nothing is raised.
C18_FilterKeepsRowsInRange ==
    (Analysis("filter_by_error_range") /\ "error_rate" \in analysis.df.columns) =>
        /\ ~analysis.raised
        /\ ~analysis.table.is_none
        /\ analysis.table.columns = analysis.df.columns
        /\ Len(analysis.table.rows) = Cardinality(Kept)
        /\ \A k \in 1..Len(analysis.table.rows) :
              analysis.table.rows[k] = analysis.df.rows[KeptAt(k)]

\* from 0.07 to 0.1: the row between two kept rows is dropped
C18_Witness ==
    /\ Analysis("filter_by_error_range")
    /\ analysis.min_error = 7
    /\ analysis.max_error = 10
    /\ "error_rate" \in analysis.df.columns
    /\ Len(analysis.df.rows) = 3
    /\ Kept = {1, 3}
    /\ Len(analysis.table.rows) = 2
    /\ ~analysis.raised

\* ---------------------------------------------------------------- ResultsAnalyzer: summary
Summarised == Analysis("generate_summary_report")
SummarisedList == IF analysis.results.has_results THEN analysis.results.results ELSE <<>>

\* the orders the entries of a list can come in
Reorderings(l) ==
    {[i \in 1..Len(l) |-> l[p[i]]] :
        p \in {q \in [1..Len(l) -> 1..Len(l)] :
                  \A i, j \in 1..Len(l) : q[i] = q[j] => i = j}}

\* C19: generate_summary_report's total_sentences is the number of entries
\* of the results list, duplicates of an error rate counted; its error_rates
\* holds every distinct error rate of the list exactly once and nothing
\* else, whatever the order of the entries.
C19_SummaryCountsAndRates ==
    Summarised =>
        LET rates == analysis.summary.error_rates
        IN  /\ analysis.summary.total_sentences = Len(SummarisedList)
            /\ Range(rates) = {SummarisedList[i].error_rate : i \in 1..Len(SummarisedList)}
            /\ \A i, j \in 1..Len(rates) : rates[i] = rates[j] => i = j
            /\ \A l \in Reorderings(SummarisedList) :
                  GenerateSummaryReport(Results(l), analysis.df).error_rates = rates

\* 0.1, 0.07, 0.1: three sentences, two rates
C19_Witness ==
    /\ Summarised
    /\ analysis.results.has_results
    /\ Len(analysis.results.results) = 3
    /\ analysis.results.results[1].error_rate = 10
    /\ analysis.results.results[2].error_rate = 7
    /\ analysis.results.results[3].error_rate = 10
    /\ analysis.summary.total_sentences = 3
    /\ analysis.summary.error_rates = <<7, 10>>

CosineColumn == Column(analysis.df, "cosine_distance")

\* C20: with a non-empty metrics table that has a cosine_distance column the
\* summary's metrics entry holds the least, the greatest and the mean cosine
\* distance, and total_degradation, the last row's cosine distance minus the
\* first row's; with exactly one row total_degradation is null.  Without a
\* metrics table, or with an empty one, the summary has no metrics entry.
C20_SummaryMetrics ==
    Summarised =>
        /\ (analysis.df.is_none \/ Len(analysis.df.rows) = 0) => ~analysis.summary.has_metrics
        /\ (/\ ~analysis.df.is_none
            /\ Len(analysis.df.rows) > 0
            /\ "cosine_distance" \in analysis.df.columns) =>
              LET m == analysis.summary.metrics
                  n == Len(CosineColumn)
              IN  /\ analysis.summary.has_metrics
                  /\ m.min_distance \in Range(CosineColumn)
                  /\ \A i \in 1..n : ~FloatLess(CosineColumn[i], m.min_distance)
                  /\ m.max_distance \in Range(CosineColumn)
                  /\ \A i \in 1..n : ~FloatLess(m.max_distance, CosineColumn[i])
                  /\ IsQuotient(m.mean_distance,
                                SumTo([i \in 1..n |-> Hundredths(CosineColumn[i])], n),
                                n * 100)
                  /\ n = 1 => m.total_degradation = NoneValue
                  /\ n > 1 =>
                        IsQuotient(m.total_degradation,
                                   Hundredths(CosineColumn[n]) - Hundredths(CosineColumn[1]),
                                   100)

\* 0.25, 0.0, 0.1: least 0.0, greatest 0.25, degradation -0.15
C20_Witness ==
    /\ Summarised
    /\ ~analysis.df.is_none
    /\ "cosine_distance" \in analysis.df.columns
    /\ Len(analysis.df.rows) = 3
    /\ analysis.summary.has_metrics
    /\ IsQuotient(analysis.summary.metrics.min_distance, 0, 1)
    /\ IsQuotient(analysis.summary.metrics.max_distance, 25, 100)
    /\ IsQuotient(analysis.summary.metrics.total_degradation, -15, 100)

\* ---------------------------------------------------------------- ResultsAnalyzer: comparison table
AnalysedList == IF analysis.results.has_results THEN analysis.results.results ELSE <<>>

\* the rows of the table handed in whose percentage is that of the queried level
Matching ==
    {i \in 1..Len(analysis.df.rows) :
        analysis.df.rows[i]["error_rate"] = Times100(analysis.error_level)}
FirstMatching == CHOOSE i \in Matching : \A j \in Matching : i <= j

\* C21: on a table built by create_comparison_dataframe,
\* get_error_level_statistics(df, r) returns the statistics of the first row
\* whose percentage equals r*100, with error_rate reported as r, whenever a
\* result had error rate r; when no row matches it returns a mapping with
\* the key 'error' and raises nothing.
C21_StatisticsOfFirstMatchOrNotFound ==
    (Analysis("get_error_level_statistics") /\ analysis.built) =>
        /\ ~analysis.raised
        /\ (\E i \in 1..Len(AnalysedList) : AnalysedList[i]["error_rate"] = analysis.error_level)
              => /\ Matching # {}
                 /\ "error" \notin DOMAIN analysis.stats
                 /\ analysis.stats["error_rate"] = analysis.error_level
                 /\ analysis.stats["original_text"] = analysis.df.rows[FirstMatching]["original"]
                 /\ analysis.stats["misspelled_text"] = analysis.df.rows[FirstMatching]["misspelled"]
                 /\ analysis.stats["final_text"] = analysis.df.rows[FirstMatching]["final"]
                 /\ analysis.stats["word_count"] = analysis.df.rows[FirstMatching]["word_count"]
        /\ (\A i \in 1..Len(AnalysedList) : AnalysedList[i]["error_rate"] # analysis.error_level)
              => "error" \in DOMAIN analysis.stats

Created == Analysis("create_comparison_dataframe")

\* C22: create_comparison_dataframe returns one row per entry of
\* results['results'], in input order, with error_rate the entry's
\* error_rate * 100; a missing id, french, hebrew or final becomes 'N/A', a
\* missing misspelled the original, a missing word_count the number of
\* whitespace-separated words of original; no missing optional field makes
\* the call fail.
C22_OneRowPerResult ==
    (Created /\ \A i \in 1..Len(AnalysedList) : ~Incomplete(AnalysedList[i])) =>
        /\ ~analysis.raised
        /\ Len(analysis.table.rows) = Len(AnalysedList)
        /\ \A i \in 1..Len(AnalysedList) :
              LET entry == AnalysedList[i]
                  row == analysis.table.rows[i]
              IN  /\ row["error_rate"] = Times100(entry["error_rate"])
                  /\ row["original"] = entry["original"]
                  /\ \A k \in {"id", "french", "hebrew", "final"} :
                        row[k] = IF k \in DOMAIN entry THEN entry[k] ELSE "N/A"
                  /\ row["misspelled"] =
                        IF "misspelled" \in DOMAIN entry THEN entry["misspelled"]
                        ELSE entry["original"]
                  /\ row["word_count"] =
                        IF "word_count" \in DOMAIN entry THEN entry["word_count"]
                        ELSE WordCount(entry["original"])

\* a whole entry after one that has the required fields only
C22_Witness ==
    /\ Created
    /\ Len(AnalysedList) = 2
    /\ DOMAIN AnalysedList[1] = {"error_rate", "original"}
    /\ DOMAIN AnalysedList[2] = ComparisonColumns
    /\ ~analysis.raised
    /\ analysis.table.rows[1]["word_count"] = 2
    /\ analysis.table.rows[1]["final"] = "N/A"
    /\ analysis.table.rows[2]["word_count"] = 9
    /\ analysis.table.rows[2]["final"] = "fin"

\* C30: for every pair of texts the result of calculate_text_changes has
\* common_words + removed_words = the number of distinct words of original,
\* common_words + added_words = the number of distinct words of final,
\* common_words <= min(original_word_count, final_word_count) and
\* 0 <= word_retention_rate <= 1; with original and final swapped
\* common_words is the same and added_words and removed_words change places.
C30_TextChangesInvariants ==
    Analysis("calculate_text_changes") =>
        LET c == analysis.changes
            swapped == CalculateTextChanges(analysis.final, analysis.original).changes
        IN  /\ c.common_words + c.removed_words = Cardinality(WordSet(analysis.original))
            /\ c.common_words + c.added_words = Cardinality(WordSet(analysis.final))
            /\ c.common_words <= c.original_word_count
            /\ c.common_words <= c.final_word_count
            /\ c.word_retention_rate.den > 0
            /\ 0 <= c.word_retention_rate.num
            /\ c.word_retention_rate.num <= c.word_retention_rate.den
            /\ swapped.common_words = c.common_words
            /\ swapped.added_words = c.removed_words
            /\ swapped.removed_words = c.added_words

\* a word twice against two other words, one of them twice
C30_Witness ==
    /\ Analysis("calculate_text_changes")
    /\ analysis.original = <<"a", " ", "a">>
    /\ analysis.final = <<"A", " ", "A">>
    /\ analysis.changes.common_words = 0
    /\ analysis.changes.removed_words = 1
    /\ analysis.changes.added_words = 1

ReachedEncode ==
    \/ Done("calculate_distance") /\ call.metric \in Supported
    \/ Done("calculate_similarity") /\ call.metric \in {"cosine", "euclidean"}
    \/ Done("calculate_all_metrics")

\* encode of this text fails: the text is blank, or the model or the API
\* failed when it was shown the text
BackendFailsOn(t) == t \in DOMAIN backend /\ backend[t] = Unavailable
EncodeFailsOn(t) == Blank(t) \/ BackendFailsOn(t)
EncodeErrorOn(t) ==
    IF Blank(t) THEN ValueError(<<"Input text cannot be empty">>) ELSE BackendError

\* C23: when encode fails for either text (input error or backend failure),
\* calculate_distance, calculate_similarity and calculate_all_metrics raise
\* that very failure and return nothing: encode is not called again after the
\* failure, every text is shown to the model at most once, and no distance,
\* metrics or embeddings come back.
C23_EncodeFailurePropagates ==
    ReachedEncode /\ (EncodeFailsOn(call.text1) \/ EncodeFailsOn(call.text2)) =>
        LET first == EncodeFailsOn(call.text1)
            normalize == result.encodes[1].normalize
        IN  /\ result.raised
            /\ result.error = EncodeErrorOn(IF first THEN call.text1 ELSE call.text2)
            /\ result.encodes = IF first THEN <<EncodeCall(call.text1, normalize)>>
                                ELSE PairEncodes(normalize)
            /\ Len(result.calls) =
                   (IF Blank(call.text1) THEN 0 ELSE 1)
                   + (IF first \/ Blank(call.text2) THEN 0 ELSE 1)
            /\ result.value = F(0)
            /\ result.metrics = NoMetrics
            /\ result.embeddings = <<>>

\* the model failed on the second text of calculate_all_metrics after it had
\* answered the first
C23_Witness ==
    /\ Done("calculate_all_metrics")
    /\ ~EncodeFailsOn(call.text1)
    /\ BackendFailsOn(call.text2)
    /\ result.raised
    /\ result.error = BackendError
    /\ Len(result.encodes) = 2
    /\ Len(result.calls) = 2

\* ---- the DataLoader cache (SpecLoader)
LoadOps == {"load_input_dataset", "load_results", "load_metrics"}
Load == loader.last

\* C24: once a load of a path has returned, every later load of that path by
\* the same method before a clear_cache returns the very same object and does
\* not open the file, whatever was loaded in between and whatever has become
\* of the file; for load_input_dataset, load_results and load_metrics alike.
C24_CachedLoadReturnsSameObject ==
    Load.op \in LoadOps /\ Load.first # NoObject =>
        /\ ~Load.raised
        /\ Load.returned = Load.first
        /\ Load.returned.id = Load.first.id
        /\ ~Load.read

\* a dataset was loaded, results were loaded from the same path, the file
\* was removed, and the dataset was loaded again
C24_Witness ==
    /\ Load.op = "load_input_dataset"
    /\ Load.first # NoObject
    /\ Load.file = "missing"
    /\ CacheKey("results_", Load.file_path) \in DOMAIN loader.cache
    /\ Load.returned.content \in {"v1", "v2"}
    /\ ~Load.read

\* C25: clear_cache leaves the cache without an entry, after any loads; the
\* first load of a path after it looks at the file again: it raises
\* FileNotFoundError when the file is gone and reads the file otherwise.
C25_ClearCacheEmptiesCache ==
    /\ Load.op = "clear_cache" => loader.cache = NoCache
    /\ Load.op \in LoadOps /\ loader.cleared /\ Load.fresh =>
          IF Load.file = "missing"
          THEN Load.raised /\ Load.error.type = "FileNotFoundError" /\ ~Load.read
          ELSE Load.read

\* a path was loaded, the cache cleared, the file removed, the path loaded again
C25_Witness ==
    /\ Load.op = "load_results"
    /\ loader.cleared
    /\ Load.fresh
    /\ loader.objects = 1
    /\ Load.cache_before = NoCache
    /\ Load.raised
    /\ Load.error.type = "FileNotFoundError"

\* C29: a load that fails leaves the cache as it found it: no entry for the
\* path it was asked for, and no entry added, changed or removed.
C29_FailedLoadLeavesCacheUnchanged ==
    Load.op \in LoadOps /\ Load.raised =>
        /\ loader.cache = Load.cache_before
        /\ Load.key \notin DOMAIN loader.cache

\* ---- get_result_summary (SpecSummary)
Summary == loader.last.summary
SummaryOf == loader.last.results

\* C26: for results with at least one entry get_result_summary returns a
\* mapping whose experiment_id is the one of the results, whose
\* total_sentences is the number of entries, and whose mode is 'unknown'
\* when the results have none; for an empty result list it returns a mapping
\* with the key 'error'.
C26_ResultSummary ==
    loader.last.op = "get_result_summary" /\ SummaryOf.has_results =>
        IF SummaryOf.results = <<>>
        THEN ~loader.last.raised /\ "error" \in DOMAIN Summary
        ELSE /\ ~loader.last.raised
             /\ "experiment_id" \in DOMAIN SummaryOf.head =>
                   /\ "experiment_id" \in DOMAIN Summary
                   /\ Summary["experiment_id"] = SummaryOf.head["experiment_id"]
             /\ "total_sentences" \in DOMAIN Summary
             /\ Summary["total_sentences"] = Len(SummaryOf.results)
             /\ "mode" \notin DOMAIN SummaryOf.head =>
                   "mode" \in DOMAIN Summary /\ Summary["mode"] = "unknown"

\* ---- _translate_with_retry (SpecRetry)
Invocations == Len(retry.log)
LastOutcome == retry.log[Invocations]

\* C28: with max_retries >= 1, whatever translate_func does: it is invoked
\* at most max_retries times; the value returned is the one of the first
\* invocation that succeeded; an invocation is followed by another only
\* after a rate-limit error on an attempt that was not the last, and after
\* a sleep; a rate-limit error on the max_retries-th attempt is raised
\* again; any other exception is raised on the attempt where it occurred;
\* nothing is returned that translate_func did not return.
C28_TranslateWithRetry ==
    retry.state # "idle" /\ retry.max_retries >= 1 =>
        IF retry.error.type = "ImportError"
        THEN retry.state = "raised" /\ Invocations = 0
        ELSE
        /\ Invocations <= retry.max_retries
        /\ Invocations = retry.attempt + (IF retry.state = "calling" THEN 0 ELSE 1)
        /\ \A i \in 1..(Invocations - 1) : IsRateLimit(retry.log[i])
        /\ Len(retry.sleeps) = retry.attempt
        /\ \A i \in 1..Len(retry.sleeps) :
              retry.sleeps[i] = RetryDelay(retry.log[i].error.msg) + 1
        /\ retry.state = "returned" =>
              /\ LastOutcome.kind = "value"
              /\ retry.value = LastOutcome.value
        /\ retry.state = "raised" =>
              /\ LastOutcome.kind = "error"
              /\ retry.error = LastOutcome.error
              /\ IsRateLimit(LastOutcome) => Invocations = retry.max_retries
        /\ retry.state = "waiting" =>
              IsRateLimit(LastOutcome) /\ Invocations < retry.max_retries
        /\ Invocations >= 1 /\ retry.state = "calling" => IsRateLimit(LastOutcome)

\* two rate-limit errors, two sleeps, then the third and last attempt fails
\* with the rate limit and the error is raised
C28_Witness ==
    /\ retry.state = "raised"
    /\ retry.max_retries = 3
    /\ Invocations = 3
    /\ retry.sleeps = <<11, 6>>
    /\ retry.error.type = "ResourceExhausted"

====
